---- MODULE Spec2Model ----
(***************************************************************************)
(* A model of the fact-sourced graph store of H3imd3ll:                    *)
(*   src/src/graph/graph.rs        GraphDb (projection + event log)        *)
(*   src/src/graph/fact.rs         Fact, FactStore                         *)
(*   src/src/graph/entity.rs       Entity, EntityType                      *)
(*   src/src/graph/relationship.rs Relationship, RelationshipType          *)
(*   src/src/engine/search.rs      search_entities                         *)
(*   src/src/engine/case.rs        Case, CaseBuilder                       *)
(*   src/src/engine/utils.rs       sort_facts_by_time, deduplicate_facts   *)
(*   src/src/engine/timeline.rs    generate_timeline                       *)
(*                                                                         *)
(* Conventions.  Option<T> is a sequence: <<>> is None, <<v>> is Some(v).   *)
(* A NodeIndex n of petgraph is position n+1 of graph.nodes.  A String     *)
(* that is only compared for equality is a TLA+ string; an entity name,    *)
(* which search_entities inspects for substrings, is a sequence of         *)
(* characters.  A BTreeMap is a function from its keys.                    *)
(***************************************************************************)
EXTENDS Integers, Sequences, FiniteSets, TLC

VARIABLES
    graph,            \* GraphDb.graph: the StableDiGraph<Entity, Relationship>
    uuid_index_map,   \* GraphDb.uuid_index_map: Uuid -> NodeIndex
    event_log,        \* GraphDb.event_log: Vec<Fact>
    panicked,         \* the process has aborted on a panic
    file,             \* the content of the data file (None until a save)
    entities_applied, \* history: a direct Entity reached this store
    last_cmd          \* history: the last operation and its FactStore

vars == <<graph, uuid_index_map, event_log, panicked, file, entities_applied, last_cmd>>

(***************************************************************************)
(* Bounds and the inputs the operations are tried on.                      *)
(***************************************************************************)
MaxLog == 3

MaxBatch == 3

Uuids == {"u1", "u2"}

Timestamps == {1, 2}

NameAl == <<"A", "l">>

NameAc == <<"A", "c">>

NameBo == <<"B", "o">>

PropsAl == [k \in {"name", "type"} |-> IF k = "name" THEN NameAl ELSE "Person"]

PropsAc == [k \in {"name", "type"} |-> IF k = "name" THEN NameAc ELSE "Company"]

PropsUpd == [k \in {"name", "type"} |-> IF k = "name" THEN NameBo ELSE "Place"]

NoProps == [k \in {} |-> ""]


(***************************************************************************)
(* entity.rs: EntityType and Entity.                                       *)
(***************************************************************************)
EntityTypeNames == {"Person", "PhoneNumber", "Email", "Company", "Place", "Action", "Event"}

\* EntityType::from_properties: the "type" property, or Unknown.
EntityTypeFromProperties(props) ==
    IF "type" \in DOMAIN props /\ props["type"] \in EntityTypeNames
    THEN props["type"]
    ELSE "Unknown"

Entity(id, name, entity_type, properties) ==
    [id |-> id, name |-> name, entity_type |-> entity_type, properties |-> properties]

(***************************************************************************)
(* relationship.rs: RelationshipType and Relationship.                     *)
(***************************************************************************)
RelationshipTypeNames == {"WorksAt", "LocatedAt"}

\* RelationshipType::from_str: Ok(kind) is <<kind>>, Err(()) is <<>>.
RelationshipTypeFromStr(s) ==
    IF s \in RelationshipTypeNames THEN <<s>> ELSE <<>>

Relationship(source_id, target_id, relationship_type, valid_from, valid_to) ==
    [source_id |-> source_id, target_id |-> target_id,
     relationship_type |-> relationship_type,
     valid_from |-> valid_from, valid_to |-> valid_to]

(***************************************************************************)
(* fact.rs: the five variants of Fact, and FactStore.                      *)
(***************************************************************************)
EntityCreated(entity_id, timestamp, properties) ==
    [kind |-> "EntityCreated", entity_id |-> entity_id, timestamp |-> timestamp,
     properties |-> properties]

EntityUpdated(entity_id, timestamp, updated_properties) ==
    [kind |-> "EntityUpdated", entity_id |-> entity_id, timestamp |-> timestamp,
     updated_properties |-> updated_properties]

EntityDeleted(entity_id, timestamp) ==
    [kind |-> "EntityDeleted", entity_id |-> entity_id, timestamp |-> timestamp]

RelationshipAdded(source_id, target_id, relationship_type, timestamp, valid_from, valid_to) ==
    [kind |-> "RelationshipAdded", source_id |-> source_id, target_id |-> target_id,
     relationship_type |-> relationship_type, timestamp |-> timestamp,
     valid_from |-> valid_from, valid_to |-> valid_to]

RelationshipInvalidated(source_id, target_id, timestamp) ==
    [kind |-> "RelationshipInvalidated", source_id |-> source_id,
     target_id |-> target_id, timestamp |-> timestamp]

FactStore(entities, relationships) ==
    [entities |-> entities, relationships |-> relationships]

(***************************************************************************)
(* petgraph's StableDiGraph as graph.rs uses it.  nodes is the arena of    *)
(* node slots (<<>> vacant, <<entity>> occupied), free the stack of vacant *)
(* slots (add_node reuses the one freed last), edges the live edges in the *)
(* order they were added (an adjacency list walks them newest first).      *)
(***************************************************************************)
StableDiGraphNew == [nodes |-> <<>>, free |-> <<>>, edges |-> <<>>]

\* The NodeIndex add_node will return.
NextNodeIndex(g) == IF g.free # <<>> THEN Head(g.free) ELSE Len(g.nodes) + 1

GraphAddNode(g, weight) ==
    IF g.free # <<>>
    THEN [g EXCEPT !.nodes[Head(g.free)] = <<weight>>, !.free = Tail(g.free)]
    ELSE [g EXCEPT !.nodes = Append(g.nodes, <<weight>>)]

GraphNodeWeight(g, idx) ==
    IF idx \in DOMAIN g.nodes THEN g.nodes[idx] ELSE <<>>

GraphAddEdge(g, source, target, weight) ==
    [g EXCEPT !.edges = Append(g.edges, [source |-> source, target |-> target, weight |-> weight])]

\* A remove_node that frees the slot and leaves the incident edges in place.
GraphRemoveNodeKeepingEdges(g, idx) ==
    IF GraphNodeWeight(g, idx) = <<>>
    THEN g
    ELSE [g EXCEPT !.nodes[idx] = <<>>, !.free = <<idx>> \o g.free]

\* remove_node: the node's edges in both directions go with it.
GraphRemoveNode(g, idx) ==
    IF GraphNodeWeight(g, idx) = <<>>
    THEN g
    ELSE LET Keep(e) == e.source # idx /\ e.target # idx
         IN  [nodes |-> [g.nodes EXCEPT ![idx] = <<>>],
              free  |-> <<idx>> \o g.free,
              edges |-> SelectSeq(g.edges, Keep)]

\* edges_connecting(src, tgt) followed by remove_edge of each.
GraphRemoveEdgesConnecting(g, src, tgt) ==
    LET Keep(e) == ~(e.source = src /\ e.target = tgt)
    IN  [g EXCEPT !.edges = SelectSeq(g.edges, Keep)]

Reverse(s) == [i \in 1..Len(s) |-> s[Len(s) + 1 - i]]

\* neighbors(idx): the targets of the outgoing edges, newest edge first.
GraphNeighbors(g, idx) ==
    LET Out(e) == e.source = idx
        out == Reverse(SelectSeq(g.edges, Out))
    IN  [i \in 1..Len(out) |-> out[i].target]

\* neighbors_directed(idx, Incoming): the sources of the incoming edges.
GraphNeighborsIncoming(g, idx) ==
    LET In(e) == e.target = idx
        in == Reverse(SelectSeq(g.edges, In))
    IN  [i \in 1..Len(in) |-> in[i].source]

\* node_indices(): the occupied slots in ascending index order.
RECURSIVE IndicesFrom(_, _)
IndicesFrom(g, i) ==
    IF i > Len(g.nodes) THEN <<>>
    ELSE (IF g.nodes[i] # <<>> THEN <<i>> ELSE <<>>) \o IndicesFrom(g, i + 1)

GraphNodeIndices(g) == IndicesFrom(g, 1)

(***************************************************************************)
(* graph.rs: GraphDb.  A store is the record db of its three fields, plus  *)
(* panicked: a panic in add_fact unwinds out of the store at that point.   *)
(***************************************************************************)
GraphDbNew ==
    [graph |-> StableDiGraphNew, uuid_index_map |-> <<>>, event_log |-> <<>>,
     panicked |-> FALSE]

\* HashMap::insert.
MapInsert(map, key, value) ==
    [k \in DOMAIN map \cup {key} |-> IF k = key THEN value ELSE map[k]]

\* HashMap::remove.
MapRemove(map, key) == [k \in DOMAIN map \ {key} |-> map[k]]

\* add_entity without its contains_key guard: a second write replaces the first.
AddEntityOverwriting(db, entity) ==
    [db EXCEPT !.graph = GraphAddNode(db.graph, entity),
               !.uuid_index_map =
                   MapInsert(db.uuid_index_map, entity.id, NextNodeIndex(db.graph))]

\* GraphDb::add_entity: first write wins.
AddEntity(db, entity) ==
    IF entity.id \in DOMAIN db.uuid_index_map
    THEN db
    ELSE [db EXCEPT !.graph = GraphAddNode(db.graph, entity),
                    !.uuid_index_map =
                        MapInsert(db.uuid_index_map, entity.id, NextNodeIndex(db.graph))]

\* add_relationship with the endpoints of add_edge exchanged.
AddRelationshipSwapped(db, relationship) ==
    IF /\ relationship.source_id \in DOMAIN db.uuid_index_map
       /\ relationship.target_id \in DOMAIN db.uuid_index_map
    THEN [db EXCEPT !.graph = GraphAddEdge(db.graph,
                                  db.uuid_index_map[relationship.target_id],
                                  db.uuid_index_map[relationship.source_id],
                                  relationship)]
    ELSE db

\* GraphDb::add_relationship: an edge only if both endpoints resolve.
AddRelationship(db, relationship) ==
    IF /\ relationship.source_id \in DOMAIN db.uuid_index_map
       /\ relationship.target_id \in DOMAIN db.uuid_index_map
    THEN [db EXCEPT !.graph = GraphAddEdge(db.graph,
                                  db.uuid_index_map[relationship.source_id],
                                  db.uuid_index_map[relationship.target_id],
                                  relationship)]
    ELSE db

\* GraphDb::get_entity.
GetEntity(db, uuid) ==
    IF uuid \in DOMAIN db.uuid_index_map
    THEN GraphNodeWeight(db.graph, db.uuid_index_map[uuid])
    ELSE <<>>

\* The weights of the occupied nodes among idxs, in the order of idxs.
RECURSIVE NodeWeights(_, _)
NodeWeights(g, idxs) ==
    IF idxs = <<>> THEN <<>>
    ELSE GraphNodeWeight(g, Head(idxs)) \o NodeWeights(g, Tail(idxs))

\* GraphDb::get_outgoing_neighbours.
GetOutgoingNeighbours(db, uuid) ==
    IF uuid \in DOMAIN db.uuid_index_map
    THEN NodeWeights(db.graph, GraphNeighbors(db.graph, db.uuid_index_map[uuid]))
    ELSE <<>>

\* GraphDb::get_incoming_neighbours.
GetIncomingNeighbours(db, uuid) ==
    IF uuid \in DOMAIN db.uuid_index_map
    THEN NodeWeights(db.graph, GraphNeighborsIncoming(db.graph, db.uuid_index_map[uuid]))
    ELSE <<>>

\* properties.get("name").cloned().unwrap_or_default()
NameOf(properties) ==
    IF "name" \in DOMAIN properties THEN properties["name"] ELSE <<>>

\* The EntityCreated arm of add_fact.
ApplyEntityCreated(db, fact) ==
    AddEntity(db, Entity(fact.entity_id, NameOf(fact.properties),
                         EntityTypeFromProperties(fact.properties), fact.properties))

\* The EntityUpdated arm deriving entity_type again from the merged properties.
ApplyEntityUpdatedRetyping(db, fact) ==
    IF fact.entity_id \in DOMAIN db.uuid_index_map
       /\ GraphNodeWeight(db.graph, db.uuid_index_map[fact.entity_id]) # <<>>
    THEN LET idx == db.uuid_index_map[fact.entity_id]
             old == db.graph.nodes[idx][1]
             merged == [k \in DOMAIN old.properties \cup DOMAIN fact.updated_properties |->
                            IF k \in DOMAIN fact.updated_properties
                            THEN fact.updated_properties[k]
                            ELSE old.properties[k]]
         IN  [db EXCEPT !.graph.nodes[idx] =
                 <<[old EXCEPT !.properties = merged,
                               !.entity_type = EntityTypeFromProperties(merged)]>>]
    ELSE db

\* An EntityUpdated arm that also takes the entity's name from the merged
\* properties.
ApplyEntityUpdatedRenaming(db, fact) ==
    IF fact.entity_id \in DOMAIN db.uuid_index_map
       /\ GraphNodeWeight(db.graph, db.uuid_index_map[fact.entity_id]) # <<>>
    THEN LET idx == db.uuid_index_map[fact.entity_id]
             old == db.graph.nodes[idx][1]
             merged == [k \in DOMAIN old.properties \cup DOMAIN fact.updated_properties |->
                            IF k \in DOMAIN fact.updated_properties
                            THEN fact.updated_properties[k]
                            ELSE old.properties[k]]
         IN  [db EXCEPT !.graph.nodes[idx] =
                 <<[old EXCEPT !.properties = merged, !.name = NameOf(merged)]>>]
    ELSE db

\* The EntityUpdated arm: the keys are merged into the node's properties.
ApplyEntityUpdated(db, fact) ==
    IF fact.entity_id \in DOMAIN db.uuid_index_map
       /\ GraphNodeWeight(db.graph, db.uuid_index_map[fact.entity_id]) # <<>>
    THEN LET idx == db.uuid_index_map[fact.entity_id]
             old == db.graph.nodes[idx][1]
             merged == [k \in DOMAIN old.properties \cup DOMAIN fact.updated_properties |->
                            IF k \in DOMAIN fact.updated_properties
                            THEN fact.updated_properties[k]
                            ELSE old.properties[k]]
         IN  [db EXCEPT !.graph.nodes[idx] = <<[old EXCEPT !.properties = merged]>>]
    ELSE db

\* An EntityDeleted arm that removes the node and keeps the key in the index.
ApplyEntityDeletedNodeOnly(db, fact) ==
    IF fact.entity_id \in DOMAIN db.uuid_index_map
    THEN [db EXCEPT !.graph = GraphRemoveNode(db.graph, db.uuid_index_map[fact.entity_id])]
    ELSE db

\* The EntityDeleted arm without its remove_node: only the index forgets the id.
ApplyEntityDeletedIndexOnly(db, fact) ==
    IF fact.entity_id \in DOMAIN db.uuid_index_map
    THEN [db EXCEPT !.uuid_index_map = MapRemove(db.uuid_index_map, fact.entity_id)]
    ELSE db

\* The EntityDeleted arm.
ApplyEntityDeleted(db, fact) ==
    IF fact.entity_id \in DOMAIN db.uuid_index_map
    THEN [db EXCEPT !.graph = GraphRemoveNode(db.graph, db.uuid_index_map[fact.entity_id]),
                    !.uuid_index_map = MapRemove(db.uuid_index_map, fact.entity_id)]
    ELSE db

\* The RelationshipAdded arm: relationship_type.parse().unwrap() panics on
\* Err before add_relationship is reached.
ApplyRelationshipAdded(db, fact) ==
    LET parsed == RelationshipTypeFromStr(fact.relationship_type)
    IN  IF parsed = <<>>
        THEN [db EXCEPT !.panicked = TRUE]
        ELSE AddRelationship(db, Relationship(fact.source_id, fact.target_id, parsed[1],
                                              fact.valid_from, fact.valid_to))

\* The RelationshipInvalidated arm removing the edges of both directions.
ApplyRelationshipInvalidatedBothWays(db, fact) ==
    IF /\ fact.source_id \in DOMAIN db.uuid_index_map
       /\ fact.target_id \in DOMAIN db.uuid_index_map
    THEN [db EXCEPT !.graph = GraphRemoveEdgesConnecting(
                                  GraphRemoveEdgesConnecting(db.graph,
                                      db.uuid_index_map[fact.source_id],
                                      db.uuid_index_map[fact.target_id]),
                                  db.uuid_index_map[fact.target_id],
                                  db.uuid_index_map[fact.source_id])]
    ELSE db

\* The RelationshipInvalidated arm.
ApplyRelationshipInvalidated(db, fact) ==
    IF /\ fact.source_id \in DOMAIN db.uuid_index_map
       /\ fact.target_id \in DOMAIN db.uuid_index_map
    THEN [db EXCEPT !.graph = GraphRemoveEdgesConnecting(db.graph,
                                  db.uuid_index_map[fact.source_id],
                                  db.uuid_index_map[fact.target_id])]
    ELSE db

\* The match of add_fact on one fact.
ApplyToProjection(db, fact) ==
    CASE fact.kind = "EntityCreated" -> ApplyEntityCreated(db, fact)
      [] fact.kind = "EntityUpdated" -> ApplyEntityUpdated(db, fact)
      [] fact.kind = "EntityDeleted" -> ApplyEntityDeleted(db, fact)
      [] fact.kind = "RelationshipAdded" -> ApplyRelationshipAdded(db, fact)
      [] fact.kind = "RelationshipInvalidated" -> ApplyRelationshipInvalidated(db, fact)

\* self.event_log.push(fact)
LogPush(db, fact) == [db EXCEPT !.event_log = Append(db.event_log, fact)]

\* One turn of the loop over the facts: the match, then the push.  A panic
\* in the match leaves the loop before the push.
ApplyFact(db, fact) ==
    LET applied == ApplyToProjection(db, fact)
    IN  IF applied.panicked THEN applied ELSE LogPush(applied, fact)

RECURSIVE ApplyFacts(_, _)
ApplyFacts(db, facts) ==
    IF facts = <<>> \/ db.panicked THEN db
    ELSE ApplyFacts(ApplyFact(db, Head(facts)), Tail(facts))

RECURSIVE AddEntities(_, _)
AddEntities(db, entities) ==
    IF entities = <<>> THEN db
    ELSE AddEntities(AddEntity(db, Head(entities)), Tail(entities))

\* An add_fact that applies the batch's facts before it inserts the direct
\* entities.
AddFactFactsFirst(db, fact_store) ==
    AddEntities(ApplyFacts(db, fact_store.relationships), fact_store.entities)

\* GraphDb::add_fact: the direct entities, then the facts in list order.
AddFact(db, fact_store) ==
    ApplyFacts(AddEntities(db, fact_store.entities), fact_store.relationships)

(***************************************************************************)
(* The persisted form (serde_json over the derived Serialize/Deserialize   *)
(* of Fact): an array of externally tagged objects, an object being the    *)
(* sequence of its <<key, value>> members in the order they are written.   *)
(***************************************************************************)
JNull == [json |-> "null"]

JNum(n) == [json |-> "number", v |-> n]

JStr(s) == [json |-> "string", v |-> s]

JObj(members) == [json |-> "object", members |-> members]

JArr(items) == [json |-> "array", items |-> items]

\* The keys a BTreeMap<String, String> of the model can hold, ascending.
KeyOrder == <<"name", "type">>

\* A BTreeMap serializes its entries in ascending key order.
SerializeMap(map) ==
    LET Has(k) == k \in DOMAIN map
        keys == SelectSeq(KeyOrder, Has)
    IN  JObj([i \in 1..Len(keys) |-> <<keys[i], JStr(map[keys[i]])>>])

SerializeOption(opt) == IF opt = <<>> THEN JNull ELSE JNum(opt[1])

\* One Fact as {"<Variant>": {<fields in declaration order>}}.
SerializeFact(fact) ==
    LET ts == <<"timestamp", JStr(fact.timestamp)>>
        body ==
          CASE fact.kind = "EntityCreated" ->
                 << <<"entity_id", JStr(fact.entity_id)>>, ts,
                    <<"properties", SerializeMap(fact.properties)>> >>
            [] fact.kind = "EntityUpdated" ->
                 << <<"entity_id", JStr(fact.entity_id)>>, ts,
                    <<"updated_properties", SerializeMap(fact.updated_properties)>> >>
            [] fact.kind = "EntityDeleted" ->
                 << <<"entity_id", JStr(fact.entity_id)>>, ts >>
            [] fact.kind = "RelationshipAdded" ->
                 << <<"source_id", JStr(fact.source_id)>>,
                    <<"target_id", JStr(fact.target_id)>>,
                    <<"relationship_type", JStr(fact.relationship_type)>>, ts,
                    <<"valid_from", JNum(fact.valid_from)>>,
                    <<"valid_to", SerializeOption(fact.valid_to)>> >>
            [] fact.kind = "RelationshipInvalidated" ->
                 << <<"source_id", JStr(fact.source_id)>>,
                    <<"target_id", JStr(fact.target_id)>>, ts >>
    IN  JObj(<< <<fact.kind, JObj(body)>> >>)

\* serde_json::to_string_pretty(&self.event_log)
SerializeLog(log) == JArr([i \in 1..Len(log) |-> SerializeFact(log[i])])

\* The value of member key of a JSON object.
Member(obj, key) ==
    obj.members[CHOOSE i \in DOMAIN obj.members : obj.members[i][1] = key][2]

DeserializeMap(obj) ==
    [k \in {obj.members[i][1] : i \in DOMAIN obj.members} |-> Member(obj, k).v]

DeserializeOption(j) == IF j.json = "null" THEN <<>> ELSE <<j.v>>

DeserializeFact(j) ==
    LET kind == j.members[1][1]
        body == j.members[1][2]
        ts == Member(body, "timestamp").v
    IN  CASE kind = "EntityCreated" ->
               EntityCreated(Member(body, "entity_id").v, ts,
                             DeserializeMap(Member(body, "properties")))
          [] kind = "EntityUpdated" ->
               EntityUpdated(Member(body, "entity_id").v, ts,
                             DeserializeMap(Member(body, "updated_properties")))
          [] kind = "EntityDeleted" ->
               EntityDeleted(Member(body, "entity_id").v, ts)
          [] kind = "RelationshipAdded" ->
               RelationshipAdded(Member(body, "source_id").v, Member(body, "target_id").v,
                                 Member(body, "relationship_type").v, ts,
                                 Member(body, "valid_from").v,
                                 DeserializeOption(Member(body, "valid_to")))
          [] kind = "RelationshipInvalidated" ->
               RelationshipInvalidated(Member(body, "source_id").v,
                                       Member(body, "target_id").v, ts)

\* serde_json::from_str::<Vec<Fact>>(&content)
DeserializeLog(content) ==
    [i \in 1..Len(content.items) |-> DeserializeFact(content.items[i])]

\* GraphDb::persist_facts: what the file holds afterwards.
PersistFacts(db) == SerializeLog(db.event_log)

\* A replay that walks the recorded facts in the order of their timestamps.
RECURSIVE ReplayByTimestamp(_, _)
ReplayByTimestamp(db, log) ==
    IF log = <<>> \/ db.panicked THEN db
    ELSE LET Earliest(i) == \A j \in 1..Len(log) :
                                \/ log[i].timestamp < log[j].timestamp
                                \/ (log[i].timestamp = log[j].timestamp /\ i <= j)
             i == CHOOSE i \in 1..Len(log) : Earliest(i)
         IN  ReplayByTimestamp(AddFact(db, FactStore(<<>>, <<log[i]>>)),
                               SubSeq(log, 1, i - 1) \o SubSeq(log, i + 1, Len(log)))

\* A replay that walks the recorded facts from the newest to the oldest.
RECURSIVE ReplayNewestFirst(_, _)
ReplayNewestFirst(db, log) ==
    IF log = <<>> \/ db.panicked THEN db
    ELSE ReplayNewestFirst(AddFact(db, FactStore(<<>>, <<log[Len(log)]>>)),
                           SubSeq(log, 1, Len(log) - 1))

\* The loop of load_from_file: one add_fact per recorded fact, in order.
RECURSIVE Replay(_, _)
Replay(db, log) ==
    IF log = <<>> \/ db.panicked THEN db
    ELSE Replay(AddFact(db, FactStore(<<>>, <<Head(log)>>)), Tail(log))

\* The match of add_fact on each recorded fact, without the push to the log.
RECURSIVE ProjectAll(_, _)
ProjectAll(db, log) ==
    IF log = <<>> \/ db.panicked THEN db
    ELSE ProjectAll(ApplyToProjection(db, Head(log)), Tail(log))

\* A load that rebuilds the projection and leaves the log of the new store empty.
LoadFromFileWithoutLog(content) == ProjectAll(GraphDbNew, DeserializeLog(content))

\* GraphDb::load_from_file on a file holding content.
LoadFromFile(content) == Replay(GraphDbNew, DeserializeLog(content))

(***************************************************************************)
(* search.rs: search_entities.                                             *)
(***************************************************************************)
\* str::contains on names.
Contains(name, sub) ==
    \E i \in 0..(Len(name) - Len(sub)) : SubSeq(name, i + 1, i + Len(sub)) = sub

SearchQuery(entity_type, name_contains) ==
    [entity_type |-> entity_type, name_contains |-> name_contains]

SearchEntities(db, query) ==
    LET Matches(entity) ==
            /\ query.entity_type # <<>> => entity.entity_type = query.entity_type[1]
            /\ query.name_contains # <<>> => Contains(entity.name, query.name_contains[1])
    IN  SelectSeq(NodeWeights(db.graph, GraphNodeIndices(db.graph)), Matches)

(***************************************************************************)
(* fact.rs: Fact::timestamp and Fact::involves_any.  A DateTime is the     *)
(* instant it denotes, counted in ticks: equality, hashing and ordering of *)
(* chrono's DateTime compare instants whatever the time zone, and          *)
(* with_timezone(&Utc) keeps the instant.                                  *)
(***************************************************************************)
Timestamp(fact) == fact.timestamp

\* <[Uuid]>::contains
SliceContains(slice, x) == \E i \in DOMAIN slice : slice[i] = x

EntityScoped(fact) == fact.kind \in {"EntityCreated", "EntityUpdated", "EntityDeleted"}

\* involves_any asking a relationship-scoped Fact for its source only.
InvolvesAnySourceOnly(fact, entity_ids) ==
    IF EntityScoped(fact)
    THEN SliceContains(entity_ids, fact.entity_id)
    ELSE SliceContains(entity_ids, fact.source_id)

InvolvesAny(fact, entity_ids) ==
    IF EntityScoped(fact)
    THEN SliceContains(entity_ids, fact.entity_id)
    ELSE SliceContains(entity_ids, fact.source_id) \/ SliceContains(entity_ids, fact.target_id)

(***************************************************************************)
(* engine/utils.rs: sort_facts_by_time and deduplicate_facts.              *)
(***************************************************************************)
\* The place an equal key takes in a sort that reverses equal keys.
SortedInsertBeforeEquals(sorted, fact) ==
    LET Before(f) == Timestamp(f) < Timestamp(fact)
        After(f) == ~Before(f)
    IN  SelectSeq(sorted, Before) \o <<fact>> \o SelectSeq(sorted, After)

\* The place of one more element in a stable sort by timestamp: behind the
\* elements whose key is less than or equal to its own.
SortedInsert(sorted, fact) ==
    LET Before(f) == Timestamp(f) <= Timestamp(fact)
        After(f) == ~Before(f)
    IN  SelectSeq(sorted, Before) \o <<fact>> \o SelectSeq(sorted, After)

\* Vec::sort_by_key(|f| f.timestamp()): a stable sort.
RECURSIVE SortByKeyTimestamp(_)
SortByKeyTimestamp(facts) ==
    IF facts = <<>> THEN <<>>
    ELSE SortedInsert(SortByKeyTimestamp(SubSeq(facts, 1, Len(facts) - 1)),
                      facts[Len(facts)])

SortFactsByTime(facts) == SortByKeyTimestamp(facts)

\* What the HashSet of deduplicate_facts compares, with the timestamp left out.
SeenKeyWithoutTimestamp(fact) == [fact EXCEPT !.timestamp = 0]

\* What the HashSet of deduplicate_facts compares: the derived Eq and Hash of
\* Fact take the variant and every field.
SeenKey(fact) == fact

\* The loop of deduplicate_facts.
RECURSIVE DeduplicateLoop(_, _, _)
DeduplicateLoop(facts, seen, result) ==
    IF facts = <<>> THEN result
    ELSE IF SeenKey(Head(facts)) \in seen
         THEN DeduplicateLoop(Tail(facts), seen, result)
         ELSE DeduplicateLoop(Tail(facts), seen \cup {SeenKey(Head(facts))},
                              Append(result, Head(facts)))

DeduplicateFacts(facts) == DeduplicateLoop(facts, {}, <<>>)

(***************************************************************************)
(* engine/case.rs: Case and CaseBuilder.                                   *)
(***************************************************************************)
\* Case::new; id is the Uuid::new_v4() and created_at the Local::now() of
\* the call.
CaseNew(id, created_at, name, description, related_entity_ids, facts) ==
    [id |-> id, name |-> name, description |-> description, created_at |-> created_at,
     related_entity_ids |-> related_entity_ids, facts |-> facts]

\* The window test with both bounds exclusive.
InTimeExclusive(ts, from, to) ==
    /\ from = <<>> \/ ts > from[1]
    /\ to = <<>> \/ ts < to[1]

\* from.map_or(true, |f| ts >= f) && to.map_or(true, |t| ts <= t)
InTime(ts, from, to) ==
    /\ from = <<>> \/ ts >= from[1]
    /\ to = <<>> \/ ts <= to[1]

\* Case::filter_by_time
FilterByTime(case, from, to) ==
    LET Keep(fact) == InTime(Timestamp(fact), from, to)
    IN  SelectSeq(case.facts, Keep)

\* Case::involves_entity
InvolvesEntity(case, entity_id) == SliceContains(case.related_entity_ids, entity_id)

\* CaseBuilder::new
CaseBuilderNew(db, seed_entity_id) ==
    [db |-> db, seed_entity_id |-> seed_entity_id, max_depth |-> 2,
     from |-> <<>>, to |-> <<>>]

WithMaxDepth(builder, depth) == [builder EXCEPT !.max_depth = depth]

WithTimeRange(builder, from, to) == [builder EXCEPT !.from = from, !.to = to]

\* The depth test letting the nodes one step beyond max_depth in.
BeyondMaxDepthLate(builder, depth) == depth > builder.max_depth + 1

\* The depth test keeping the nodes at exactly max_depth out.
BeyondMaxDepthEarly(builder, depth) == depth >= builder.max_depth

\* if depth > self.max_depth { continue; }
BeyondMaxDepth(builder, depth) == depth > builder.max_depth

\* A visited set that forgets: every id counts as new.
NewlyVisitedAlways(visited, id) == TRUE

\* visited.insert(entity.id) is true for an id the set does not hold yet.
NewlyVisited(visited, id) == id \notin visited

\* The neighbours, newest edge first, over the edges with no valid_to only.
NeighborsOpenEnded(g, idx) ==
    LET Out(e) == e.source = idx /\ e.weight.valid_to = <<>>
        out == Reverse(SelectSeq(g.edges, Out))
    IN  [i \in 1..Len(out) |-> out[i].target]

\* graph.neighbors(node_idx) as the traversal walks it: outgoing edges,
\* whatever their weight.
Neighbors(g, idx) == GraphNeighbors(g, idx)

\* The neighbours pushed two levels below the node they were found from.
EnqueueNeighborsTwoDeeper(queue, g, node_idx, depth) ==
    LET ns == Neighbors(g, node_idx)
    IN  queue \o [i \in 1..Len(ns) |-> <<ns[i], depth + 2>>]

\* for neighbor in graph.neighbors(node_idx) { queue.push_back((neighbor, depth + 1)) }
EnqueueNeighbors(queue, g, node_idx, depth) ==
    LET ns == Neighbors(g, node_idx)
    IN  queue \o [i \in 1..Len(ns) |-> <<ns[i], depth + 1>>]

\* The while loop of collect_related_entities over the queue of
\* (node index, depth) pairs.
RECURSIVE BfsLoop(_, _, _, _)
BfsLoop(builder, queue, visited, related) ==
    IF queue = <<>> THEN related
    ELSE LET node_idx == Head(queue)[1]
             depth == Head(queue)[2]
             rest == Tail(queue)
             entity == GraphNodeWeight(builder.db.graph, node_idx)
         IN  IF BeyondMaxDepth(builder, depth)
             THEN BfsLoop(builder, rest, visited, related)
             ELSE IF entity = <<>>
             THEN BfsLoop(builder, rest, visited, related)
             ELSE IF NewlyVisited(visited, entity[1].id)
             THEN BfsLoop(builder,
                          EnqueueNeighbors(rest, builder.db.graph, node_idx, depth),
                          visited \cup {entity[1].id},
                          Append(related, entity[1].id))
             ELSE BfsLoop(builder, rest, visited, related)

\* A traversal that reports its seed id even when the index does not hold it.
CollectRelatedEntitiesSeedAlways(builder) ==
    IF builder.seed_entity_id \in DOMAIN builder.db.uuid_index_map
    THEN BfsLoop(builder, << <<builder.db.uuid_index_map[builder.seed_entity_id], 0>> >>,
                 {}, <<>>)
    ELSE <<builder.seed_entity_id>>

\* CaseBuilder::collect_related_entities
CollectRelatedEntities(builder) ==
    IF builder.seed_entity_id \in DOMAIN builder.db.uuid_index_map
    THEN BfsLoop(builder, << <<builder.db.uuid_index_map[builder.seed_entity_id], 0>> >>,
                 {}, <<>>)
    ELSE <<>>

\* The filter of build over the event log: in the window and involving one
\* of the related entities.
RelevantFacts(builder, related_entities) ==
    LET Keep(fact) ==
            /\ InTime(Timestamp(fact), builder.from, builder.to)
            /\ InvolvesAny(fact, related_entities)
    IN  SelectSeq(builder.db.event_log, Keep)

\* CaseBuilder::build
Build(builder, name, description, id, now) ==
    LET related_entities == CollectRelatedEntities(builder)
        relevant_facts == RelevantFacts(builder, related_entities)
    IN  CaseNew(id, now, name, description, related_entities,
                DeduplicateFacts(SortFactsByTime(relevant_facts)))

(***************************************************************************)
(* engine/timeline.rs: generate_timeline.                                  *)
(***************************************************************************)
TimelineQuery(entity_id, from, to) == [entity_id |-> entity_id, from |-> from, to |-> to]

\* The relationship arm of is_relevant looking at the source end only.
RelationshipRelevantSourceOnly(query, fact) ==
    LET involves_entity ==
            query.entity_id = <<>> \/ query.entity_id[1] = fact.source_id
        in_time_window ==
            /\ query.from = <<>> \/ fact.timestamp >= query.from[1]
            /\ query.to = <<>> \/ fact.timestamp <= query.to[1]
    IN  involves_entity /\ in_time_window

\* The arm of is_relevant for RelationshipAdded and RelationshipInvalidated.
RelationshipRelevant(query, fact) ==
    LET involves_entity ==
            \/ query.entity_id = <<>>
            \/ query.entity_id[1] = fact.source_id
            \/ query.entity_id[1] = fact.target_id
        in_time_window ==
            /\ query.from = <<>> \/ fact.timestamp >= query.from[1]
            /\ query.to = <<>> \/ fact.timestamp <= query.to[1]
    IN  involves_entity /\ in_time_window

\* The arm of is_relevant for EntityCreated, EntityUpdated and EntityDeleted.
EntityRelevant(query, fact) ==
    /\ query.entity_id = <<>> \/ query.entity_id[1] = fact.entity_id
    /\ query.from = <<>> \/ fact.timestamp >= query.from[1]
    /\ query.to = <<>> \/ fact.timestamp <= query.to[1]

\* generate_timeline; the TimelineResult is the record of its facts.
GenerateTimeline(db, query) ==
    LET IsRelevant(fact) ==
            IF EntityScoped(fact)
            THEN EntityRelevant(query, fact)
            ELSE RelationshipRelevant(query, fact)
    IN  [facts |-> SortByKeyTimestamp(SelectSeq(db.event_log, IsRelevant))]

(***************************************************************************)
(* The inputs: the facts and direct entities a caller may submit.          *)
(***************************************************************************)
CreatedFacts ==
    {EntityCreated("u1", 1, PropsAl), EntityCreated("u1", 2, PropsAc),
     EntityCreated("u2", 1, PropsAc)}

UpdatedFacts == {EntityUpdated("u1", 2, PropsUpd)}

DeletedFacts == {EntityDeleted(u, 2) : u \in Uuids}

ParsableAddedFacts ==
    {RelationshipAdded("u1", "u2", "WorksAt", 1, 2020, <<>>),
     RelationshipAdded("u1", "u2", "LocatedAt", 2, 2021, <<2022>>),
     RelationshipAdded("u2", "u1", "WorksAt", 1, 2020, <<>>)}

UnparsableAddedFacts == {RelationshipAdded("u1", "u2", "Manages", 1, 2020, <<>>)}

AddedFacts == ParsableAddedFacts \cup UnparsableAddedFacts

InvalidatedFacts == {RelationshipInvalidated("u1", "u2", 2)}

Facts == CreatedFacts \cup UpdatedFacts \cup DeletedFacts \cup AddedFacts \cup InvalidatedFacts

\* The facts that batches of several facts are made of.
BatchFacts ==
    {EntityCreated("u1", 1, PropsAl), EntityCreated("u2", 1, PropsAc),
     EntityDeleted("u2", 2),
     RelationshipAdded("u1", "u2", "WorksAt", 1, 2020, <<>>),
     RelationshipAdded("u1", "u2", "LocatedAt", 2, 2021, <<2022>>),
     RelationshipAdded("u1", "u2", "Manages", 1, 2020, <<>>),
     RelationshipInvalidated("u1", "u2", 2)}

SeqsUpTo(S, n) == UNION {[1..k -> S] : k \in 0..n}

Min(a, b) == IF a <= b THEN a ELSE b

\* The fact lists of at most room facts: none, any one fact, or up to
\* MaxBatch of the batch facts.
FactListsUpTo(room) ==
    SeqsUpTo(Facts, Min(1, room)) \cup SeqsUpTo(BatchFacts, Min(MaxBatch, room))

\* Entities as a caller builds them (graph.rs tests): no properties.
DirectAl == Entity("u1", NameAl, "Person", NoProps)

DirectAc == Entity("u2", NameAc, "Company", NoProps)

EntityLists == {<<>>, <<DirectAl, DirectAc>>}

\* The batches a store whose log has room for room more facts is given.
FactStores(room) == {FactStore(es, fs) : es \in EntityLists, fs \in FactListsUpTo(room)}

(***************************************************************************)
(* The state machine: one store, the data file, and the commands that      *)
(* reach them (cli/commands.rs: db.add_fact, "save", "load").              *)
(***************************************************************************)
Db == [graph |-> graph, uuid_index_map |-> uuid_index_map, event_log |-> event_log,
       panicked |-> panicked]

SetDb(db) ==
    /\ graph' = db.graph
    /\ uuid_index_map' = db.uuid_index_map
    /\ event_log' = db.event_log
    /\ panicked' = db.panicked

Cmd(op, fact_store) == [op |-> op, fact_store |-> fact_store]

NoFactStore == FactStore(<<>>, <<>>)

\* GraphDb::new(), and no data file yet.
Init ==
    /\ graph = GraphDbNew.graph
    /\ uuid_index_map = GraphDbNew.uuid_index_map
    /\ event_log = GraphDbNew.event_log
    /\ panicked = GraphDbNew.panicked
    /\ file = <<>>
    /\ entities_applied = FALSE
    /\ last_cmd = Cmd("new", NoFactStore)

\* db.add_fact(fact_store)
AddFactCmd(fact_store) ==
    /\ ~panicked
    /\ Len(event_log) + Len(fact_store.relationships) <= MaxLog
    /\ SetDb(AddFact(Db, fact_store))
    /\ entities_applied' = (entities_applied \/ fact_store.entities # <<>>)
    /\ last_cmd' = Cmd("add_fact", fact_store)
    /\ UNCHANGED file

\* "save": db.persist_facts(data_file) replaces the file wholesale.
SaveCmd ==
    /\ ~panicked
    /\ file' = <<PersistFacts(Db)>>
    /\ last_cmd' = Cmd("save", NoFactStore)
    /\ UNCHANGED <<graph, uuid_index_map, event_log, panicked, entities_applied>>

\* "load": db = GraphDb::load_from_file(data_file)
LoadCmd ==
    /\ ~panicked
    /\ file # <<>>
    /\ SetDb(LoadFromFile(file[1]))
    /\ entities_applied' = FALSE
    /\ last_cmd' = Cmd("load", NoFactStore)
    /\ UNCHANGED file

Next == \E fact_store \in FactStores(MaxLog - Len(event_log)) : AddFactCmd(fact_store)

\* The store under its one mutating operation, GraphDb::add_fact.
Spec == Init /\ [][Next]_vars

\* What the console is given in the specification with "save" and "load".
ReplFacts ==
    {EntityCreated("u1", 1, PropsAl), EntityCreated("u2", 1, PropsAc),
     EntityDeleted("u2", 2),
     RelationshipAdded("u1", "u2", "WorksAt", 1, 2020, <<>>),
     RelationshipAdded("u1", "u2", "LocatedAt", 2, 2021, <<2022>>)}

ReplFactStores ==
    {FactStore(es, fs) : es \in {<<>>, <<DirectAl>>}, fs \in SeqsUpTo(ReplFacts, 1)}

NextRepl ==
    \/ \E fact_store \in ReplFactStores : AddFactCmd(fact_store)
    \/ SaveCmd
    \/ LoadCmd

\* The console's store with its data file.
SpecRepl == Init /\ [][NextRepl]_vars

\* A case built on the store (cli/commands.rs "build-case", which sets the
\* depth; a caller of the engine may set the window too):
\* CaseBuilder::new(&db, seed).with_max_depth(depth).with_time_range(from, to)
\*     .build(name, description)
BuildCaseCmd(seed_entity_id, depth, from, to) ==
    /\ ~panicked
    /\ LET builder == WithTimeRange(WithMaxDepth(CaseBuilderNew(Db, seed_entity_id), depth),
                                    from, to)
       IN  last_cmd' = [op |-> "build-case", fact_store |-> NoFactStore,
                        seed_entity_id |-> seed_entity_id, max_depth |-> depth,
                        from |-> from, to |-> to,
                        case |-> Build(builder, "Case around", "Auto-generated case",
                                       "case-id", 0)]
    /\ UNCHANGED <<graph, uuid_index_map, event_log, panicked, file, entities_applied>>

\* generate_timeline(&db, &TimelineQuery { entity_id, from, to })
TimelineCmd(entity_id, from, to) ==
    /\ ~panicked
    /\ LET query == TimelineQuery(entity_id, from, to)
       IN  last_cmd' = [op |-> "timeline", fact_store |-> NoFactStore,
                        query |-> query, result |-> GenerateTimeline(Db, query)]
    /\ UNCHANGED <<graph, uuid_index_map, event_log, panicked, file, entities_applied>>

(***************************************************************************)
(* The traversal of the case builder, on stores of three entities joined   *)
(* by chains, a cycle, a shortcut, a self-loop and parallel edges.         *)
(***************************************************************************)
MaxDepth == 2

DirectBo == Entity("u3", NameBo, "Place", NoProps)

TraversalUuids == {"u1", "u2", "u3"}

TraversalFacts ==
    {RelationshipAdded("u1", "u2", "WorksAt", 1, 2020, <<>>),
     RelationshipAdded("u2", "u3", "WorksAt", 1, 2020, <<>>),
     RelationshipAdded("u3", "u1", "WorksAt", 1, 2020, <<>>),
     RelationshipAdded("u1", "u3", "LocatedAt", 1, 2020, <<>>),
     RelationshipAdded("u2", "u2", "WorksAt", 1, 2020, <<>>),
     RelationshipAdded("u1", "u2", "LocatedAt", 2, 2021, <<2022>>)}

\* Batches of the three entity definitions and at most one fact.
TraversalFactStores(room) ==
    {FactStore(<<DirectAl, DirectAc, DirectBo>>, fs) :
        fs \in SeqsUpTo(TraversalFacts, Min(1, room))}

NextTraversal ==
    \/ \E fact_store \in TraversalFactStores(MaxLog - Len(event_log)) : AddFactCmd(fact_store)
    \/ \E seed \in TraversalUuids, depth \in 0..MaxDepth : BuildCaseCmd(seed, depth, <<>>, <<>>)

SpecTraversal == Init /\ [][NextTraversal]_vars

(***************************************************************************)
(* The fact selection of the case builder and of the timeline, on logs     *)
(* whose timestamps lie before, on and after the bounds of the window.     *)
(***************************************************************************)
CaseFacts ==
    {EntityCreated("u1", 1, PropsAl),
     EntityCreated("u2", 1, PropsAc),
     EntityCreated("u2", 3, PropsAc),
     EntityUpdated("u1", 3, PropsUpd),
     EntityDeleted("u2", 2),
     RelationshipAdded("u1", "u2", "WorksAt", 2, 2020, <<>>),
     RelationshipInvalidated("u1", "u2", 3)}

CaseFactStores(room) ==
    {FactStore(<<>>, fs) : fs \in SeqsUpTo(CaseFacts, Min(1, room))}

\* The [from, to] windows: no bound, one bound, both.
Windows == {<< <<>>, <<>> >>, << <<2>>, <<>> >>, << <<>>, <<2>> >>, << <<2>>, <<2>> >>}

CaseDepths == {0, 1}

NextCase ==
    \/ \E fact_store \in CaseFactStores(MaxLog - Len(event_log)) : AddFactCmd(fact_store)
    \/ \E seed \in Uuids, depth \in CaseDepths, w \in Windows :
           BuildCaseCmd(seed, depth, w[1], w[2])
    \/ \E entity_id \in {<<u>> : u \in Uuids} \cup {<<>>}, w \in Windows :
           TimelineCmd(entity_id, w[1], w[2])

SpecCase == Init /\ [][NextCase]_vars

(***************************************************************************)
(* persist_facts and load_from_file with the outcomes of their I/O, and    *)
(* the console's "save" and "load" around them.                            *)
(***************************************************************************)
\* What a write that fails midway leaves in the file: the beginning of the
\* text, which is no JSON document.
Truncated == [json |-> "truncated"]

\* File::create or write_all may fail.
PersistOutcomes == {"ok", "create_fails", "write_fails"}

\* fs::read_to_string may fail.
LoadOutcomes == {"ok", "read_fails"}

\* GraphDb::persist_facts on the file old_file (None: no file yet): the
\* Result it returns and the file it leaves.  File::create truncates, so a
\* failing write_all leaves no document.
PersistFactsIo(db, old_file, io) ==
    CASE io = "create_fails" -> [result |-> "Err", file |-> old_file]
      [] io = "write_fails" -> [result |-> "Err", file |-> <<Truncated>>]
      [] io = "ok" -> [result |-> "Ok", file |-> <<PersistFacts(db)>>]

\* serde_json::from_str::<Vec<Fact>> returns Ok on the content.
Deserializable(content) == content.json = "array"

\* GraphDb::load_from_file: each ? returns the error before a store is made.
LoadFromFileIo(old_file, io) ==
    IF old_file = <<>> \/ io = "read_fails"
    THEN [result |-> "Err", error |-> "io"]
    ELSE IF ~Deserializable(old_file[1])
    THEN [result |-> "Err", error |-> "serde_json"]
    ELSE [result |-> "Ok", db |-> LoadFromFile(old_file[1])]

\* A "load" that starts over with an empty store when load_from_file fails.
StoreAfterLoadOrNew(db, loaded) ==
    IF loaded.result = "Ok" THEN loaded.db ELSE GraphDbNew

\* match GraphDb::load_from_file(data_file) { Ok(loaded_db) => db = loaded_db, Err(e) => println!(..) }
StoreAfterLoad(db, loaded) ==
    IF loaded.result = "Ok" THEN loaded.db ELSE db

\* "save" with a persist_facts that empties the log it wrote.
SaveIoCmdDrainingLog(io) ==
    /\ ~panicked
    /\ LET saved == PersistFactsIo(Db, file, io)
       IN  /\ file' = saved.file
           /\ last_cmd' = [op |-> "save", fact_store |-> NoFactStore, io |-> io,
                           result |-> saved.result]
    /\ event_log' = <<>>
    /\ UNCHANGED <<graph, uuid_index_map, panicked, entities_applied>>

\* "save": match db.persist_facts(data_file) { Ok(_) => println!(..), Err(e) => println!(..) }
SaveIoCmd(io) ==
    /\ ~panicked
    /\ LET saved == PersistFactsIo(Db, file, io)
       IN  /\ file' = saved.file
           /\ last_cmd' = [op |-> "save", fact_store |-> NoFactStore, io |-> io,
                           result |-> saved.result]
    /\ UNCHANGED <<graph, uuid_index_map, event_log, panicked, entities_applied>>

\* "load"
LoadIoCmd(io) ==
    /\ ~panicked
    /\ LET loaded == LoadFromFileIo(file, io)
       IN  /\ SetDb(StoreAfterLoad(Db, loaded))
           /\ entities_applied' = (loaded.result # "Ok" /\ entities_applied)
           /\ last_cmd' = [op |-> "load", fact_store |-> NoFactStore, io |-> io,
                           result |-> loaded.result]
    /\ UNCHANGED file

(***************************************************************************)
(* The read operations of the store, each recording what it returned.      *)
(***************************************************************************)
\* db.get_entity(&uuid)
LookupCmd(uuid) ==
    /\ ~panicked
    /\ last_cmd' = [op |-> "lookup", fact_store |-> NoFactStore, uuid |-> uuid,
                    result |-> GetEntity(Db, uuid)]
    /\ UNCHANGED <<graph, uuid_index_map, event_log, panicked, file, entities_applied>>

\* db.get_outgoing_neighbours(&uuid)
OutgoingCmd(uuid) ==
    /\ ~panicked
    /\ last_cmd' = [op |-> "outgoing", fact_store |-> NoFactStore, uuid |-> uuid,
                    result |-> GetOutgoingNeighbours(Db, uuid)]
    /\ UNCHANGED <<graph, uuid_index_map, event_log, panicked, file, entities_applied>>

\* db.get_incoming_neighbours(&uuid)
IncomingCmd(uuid) ==
    /\ ~panicked
    /\ last_cmd' = [op |-> "incoming", fact_store |-> NoFactStore, uuid |-> uuid,
                    result |-> GetIncomingNeighbours(Db, uuid)]
    /\ UNCHANGED <<graph, uuid_index_map, event_log, panicked, file, entities_applied>>

\* search_entities(&db, &query)
SearchCmd(query) ==
    /\ ~panicked
    /\ last_cmd' = [op |-> "search", fact_store |-> NoFactStore, query |-> query,
                    result |-> SearchEntities(Db, query)]
    /\ UNCHANGED <<graph, uuid_index_map, event_log, panicked, file, entities_applied>>

QueryFacts ==
    {EntityCreated("u1", 1, PropsAl),
     EntityCreated("u2", 1, PropsAc),
     EntityDeleted("u2", 2),
     RelationshipAdded("u1", "u2", "WorksAt", 2, 2020, <<>>)}

QueryFactStores(room) ==
    {FactStore(<<>>, fs) : fs \in SeqsUpTo(QueryFacts, Min(1, room))}

QuerySearches ==
    {SearchQuery(<<>>, <<>>), SearchQuery(<<"Person">>, <<>>), SearchQuery(<<>>, <<NameAc>>)}

NextQueries ==
    \/ \E fact_store \in QueryFactStores(MaxLog - Len(event_log)) : AddFactCmd(fact_store)
    \/ \E uuid \in Uuids : LookupCmd(uuid)
    \/ \E uuid \in Uuids : OutgoingCmd(uuid)
    \/ \E uuid \in Uuids : IncomingCmd(uuid)
    \/ \E query \in QuerySearches : SearchCmd(query)
    \/ \E uuid \in Uuids : TimelineCmd(<<uuid>>, <<>>, <<>>)
    \/ \E seed \in Uuids : BuildCaseCmd(seed, 1, <<>>, <<>>)
    \/ \E io \in PersistOutcomes : SaveIoCmd(io)

\* Facts that create, delete and re-create entities and add, double and
\* invalidate edges in both directions; one has a type that does not parse.
ProjectionFacts ==
    {EntityCreated("u2", 1, PropsAc),
     EntityDeleted("u1", 2),
     EntityDeleted("u2", 2),
     RelationshipAdded("u1", "u2", "WorksAt", 1, 2020, <<>>),
     RelationshipAdded("u2", "u1", "WorksAt", 1, 2020, <<>>),
     RelationshipAdded("u1", "u2", "Manages", 1, 2020, <<>>),
     RelationshipInvalidated("u1", "u2", 2)}

\* Batches of at most two facts, with or without the two entity definitions.
ProjectionFactStores(room) ==
    {FactStore(es, fs) : es \in EntityLists, fs \in SeqsUpTo(ProjectionFacts, Min(2, room))}

NextProjection ==
    \E fact_store \in ProjectionFactStores(MaxLog - Len(event_log)) : AddFactCmd(fact_store)

\* The projection under batches that mix entity definitions with facts.
SpecProjection == Init /\ [][NextProjection]_vars

\* The life of one entity: created under two descriptions, updated with and
\* without a "name" key, deleted, and linked to a second entity both ways.
LifecycleFacts ==
    {EntityCreated("u1", 1, PropsAl),
     EntityCreated("u1", 2, PropsAc),
     EntityUpdated("u1", 2, PropsUpd),
     EntityUpdated("u1", 2, [k \in {"city"} |-> "Oslo"]),
     EntityDeleted("u1", 2),
     RelationshipAdded("u1", "u2", "WorksAt", 1, 2020, <<>>),
     RelationshipAdded("u2", "u1", "WorksAt", 1, 2020, <<>>)}

\* Batches of at most one fact, with or without the two entity definitions.
LifecycleFactStores(room) ==
    {FactStore(es, fs) : es \in EntityLists, fs \in SeqsUpTo(LifecycleFacts, Min(1, room))}

NextLifecycle ==
    \E fact_store \in LifecycleFactStores(MaxLog - Len(event_log)) : AddFactCmd(fact_store)

\* One entity created, updated, deleted and created again.
SpecLifecycle == Init /\ [][NextLifecycle]_vars

(***************************************************************************)
(* collect_related_entities turn by turn: the traversal's locals (queue,   *)
(* visited, related) are kept in last_cmd while the while loop runs, with  *)
(* the turns taken so far.  The store is borrowed for the whole call, so   *)
(* nothing else acts on it until the queue is empty.                       *)
(***************************************************************************)
\* One turn of the while loop: pop_front, the depth test, node_weight,
\* visited.insert, related.push and the push_back of the neighbours.
BfsStep(builder, bfs) ==
    LET node_idx == Head(bfs.queue)[1]
        depth == Head(bfs.queue)[2]
        rest == Tail(bfs.queue)
        g == builder.db.graph
        entity == GraphNodeWeight(g, node_idx)
        Turn(outcome, enqueued) ==
            [node_idx |-> node_idx, depth |-> depth, outcome |-> outcome,
             enqueued |-> enqueued]
    IN  IF BeyondMaxDepth(builder, depth)
        THEN [bfs EXCEPT !.queue = rest, !.turns = Append(@, Turn("beyond", 0))]
        ELSE IF entity = <<>>
        THEN [bfs EXCEPT !.queue = rest, !.turns = Append(@, Turn("vacant", 0))]
        ELSE IF NewlyVisited(bfs.visited, entity[1].id)
        THEN [queue |-> EnqueueNeighbors(rest, g, node_idx, depth),
              visited |-> bfs.visited \cup {entity[1].id},
              related |-> Append(bfs.related, entity[1].id),
              turns |-> Append(bfs.turns,
                               Turn("recorded",
                                    Len(EnqueueNeighbors(rest, g, node_idx, depth)) - Len(rest)))]
        ELSE [bfs EXCEPT !.queue = rest, !.turns = Append(@, Turn("seen", 0))]

\* The locals before the first turn: the seed's node at depth 0, or an
\* empty queue when the index does not hold the seed.
BfsStart(builder) ==
    [queue |-> IF builder.seed_entity_id \in DOMAIN builder.db.uuid_index_map
               THEN << <<builder.db.uuid_index_map[builder.seed_entity_id], 0>> >>
               ELSE <<>>,
     visited |-> {},
     related |-> <<>>,
     turns |-> <<>>]

\* while let Some(..) = queue.pop_front(): a traversal is in its loop.
BfsRunning == last_cmd.op = "bfs" /\ last_cmd.bfs.queue # <<>>

\* collect_related_entities is entered.
BfsStartCmd(seed_entity_id, depth) ==
    /\ ~panicked
    /\ ~BfsRunning
    /\ LET builder == WithMaxDepth(CaseBuilderNew(Db, seed_entity_id), depth)
       IN  last_cmd' = [op |-> "bfs", fact_store |-> NoFactStore,
                        seed_entity_id |-> seed_entity_id, max_depth |-> depth,
                        bfs |-> BfsStart(builder)]
    /\ UNCHANGED <<graph, uuid_index_map, event_log, panicked, file, entities_applied>>

\* The loop takes its next turn.
BfsStepCmd ==
    /\ BfsRunning
    /\ LET builder == WithMaxDepth(CaseBuilderNew(Db, last_cmd.seed_entity_id),
                                   last_cmd.max_depth)
       IN  last_cmd' = [last_cmd EXCEPT !.bfs = BfsStep(builder, last_cmd.bfs)]
    /\ UNCHANGED <<graph, uuid_index_map, event_log, panicked, file, entities_applied>>

\* A chain, a cycle through all three entities and a self-loop; a fact
\* applied twice gives parallel edges.
BfsFacts ==
    {RelationshipAdded("u1", "u2", "WorksAt", 1, 2020, <<>>),
     RelationshipAdded("u2", "u3", "WorksAt", 1, 2020, <<>>),
     RelationshipAdded("u3", "u1", "WorksAt", 1, 2020, <<>>),
     RelationshipAdded("u2", "u2", "WorksAt", 1, 2020, <<>>)}

BfsFactStores(room) ==
    {FactStore(<<DirectAl, DirectAc, DirectBo>>, fs) :
        fs \in SeqsUpTo(BfsFacts, Min(1, room))}

NextBfs ==
    \/ \E fact_store \in BfsFactStores(MaxLog - Len(event_log)) :
           ~BfsRunning /\ AddFactCmd(fact_store)
    \/ \E seed \in TraversalUuids, depth \in 0..MaxDepth : BfsStartCmd(seed, depth)
    \/ BfsStepCmd

\* The traversal of the Case Builder, turn by turn.
SpecBfs == Init /\ [][NextBfs]_vars

\* The loop is straight-line code of the calling thread: a turn that can be
\* taken is taken.
SpecBfsFair == SpecBfs /\ WF_vars(BfsStepCmd)

\* The store under add_fact and its read operations.
SpecQueries == Init /\ [][NextQueries]_vars

\* Facts whose recorded order is not the order of their timestamps.
PersistedFacts ==
    {EntityCreated("u1", 3, PropsAl),
     EntityCreated("u2", 1, PropsAc),
     RelationshipAdded("u1", "u2", "WorksAt", 2, 2020, <<>>)}

PersistedFactStores(room) ==
    {FactStore(<<>>, fs) : fs \in SeqsUpTo(PersistedFacts, Min(1, room))}

NextPersist ==
    \/ \E fact_store \in PersistedFactStores(MaxLog - Len(event_log)) : AddFactCmd(fact_store)
    \/ \E io \in PersistOutcomes : SaveIoCmd(io)
    \/ \E io \in LoadOutcomes : LoadIoCmd(io)

\* The console's store with a data file whose reads and writes may fail.
SpecPersist == Init /\ [][NextPersist]_vars

(***************************************************************************)
(* What the claims speak of.                                               *)
(***************************************************************************)
OccupiedNodes(db) == {i \in DOMAIN db.graph.nodes : db.graph.nodes[i] # <<>>}

\* The entities of the projection.
NodeSet(db) == {db.graph.nodes[i][1] : i \in OccupiedNodes(db)}

\* The id of the entity at a node slot ("?" for a vacant slot).
IdAt(db, idx) ==
    IF GraphNodeWeight(db.graph, idx) = <<>> THEN "?" ELSE db.graph.nodes[idx][1].id

\* The directed edges, oldest first, by the ids of the entities they join.
EdgeList(db) ==
    [i \in 1..Len(db.graph.edges) |->
        [from |-> IdAt(db, db.graph.edges[i].source),
         to |-> IdAt(db, db.graph.edges[i].target),
         relationship_type |-> db.graph.edges[i].weight.relationship_type,
         valid_from |-> db.graph.edges[i].weight.valid_from,
         valid_to |-> db.graph.edges[i].weight.valid_to]]

Range(s) == {s[i] : i \in DOMAIN s}

\* The multiset of the directed edges.
EdgeBag(db) ==
    LET el == EdgeList(db)
    IN  [e \in Range(el) |-> Cardinality({i \in DOMAIN el : el[i] = e})]

Projection(db) == [nodes |-> NodeSet(db), edges |-> EdgeBag(db)]

Ids(entities) == {entities[i].id : i \in DOMAIN entities}

Parsable(fact) ==
    fact.kind = "RelationshipAdded" => RelationshipTypeFromStr(fact.relationship_type) # <<>>

(***************************************************************************)
(* The claims.                                                             *)
(***************************************************************************)

\* C1. Replay equivalence: a store that only ever received Facts (no direct
\* Entity) has the same projection - the entities with their name, type and
\* properties, and the multiset of directed edges with their validity
\* windows - as the store obtained by persist_facts followed by
\* load_from_file.
C1_ReplayEquivalence ==
    ~entities_applied =>
        Projection(Db) = Projection(LoadFromFile(PersistFacts(Db)))

\* C1 witness: a store built from Facts alone that holds two entities and an
\* edge with a closed validity window.
C1_Witness ==
    /\ ~entities_applied
    /\ ~panicked
    /\ last_cmd.op = "add_fact"
    /\ DOMAIN uuid_index_map = {"u1", "u2"}
    /\ \E i \in DOMAIN graph.edges : graph.edges[i].weight.valid_to = <<2022>>

\* C2. In every reachable state the projection equals the fold of the
\* logged Facts, in log order, over an empty graph.
C2_ProjectionIsFoldOfLog ==
    Projection(Db) = Projection(Replay(GraphDbNew, event_log))

\* C3. For every add_fact step the log before the step is a prefix of the
\* log after it and the appended suffix is exactly the batch's Facts in list
\* order, one entry per Fact.
C3_LogAppendsTheBatch ==
    [][last_cmd'.op = "add_fact" =>
         event_log' = event_log \o last_cmd'.fact_store.relationships]_vars

\* C3, for the batches whose relationship types all parse: the log grows by
\* exactly the batch's Facts, no-ops included.
C3_LogAppendsTheBatchIfParsable ==
    [][(/\ last_cmd'.op = "add_fact"
        /\ \A i \in DOMAIN last_cmd'.fact_store.relationships :
               Parsable(last_cmd'.fact_store.relationships[i]))
       => event_log' = event_log \o last_cmd'.fact_store.relationships]_vars

\* C4. Direct Entities reach the projection and not the log: a batch of
\* direct Entities with no Facts leaves the log unchanged and every direct
\* Entity's id resolves afterwards (to the given Entity when the id was
\* new), and add_fact grows the log by exactly the number of Facts in the
\* batch.
C4_LogGrowsByTheFactCount ==
    [][last_cmd'.op = "add_fact" =>
         LET fs == last_cmd'.fact_store
         IN  /\ Len(event_log') = Len(event_log) + Len(fs.relationships)
             /\ fs.relationships = <<>> =>
                  /\ event_log' = event_log
                  /\ Ids(fs.entities) \subseteq DOMAIN uuid_index_map'
                  /\ \A i \in DOMAIN fs.entities :
                        (/\ fs.entities[i].id \notin DOMAIN uuid_index_map
                         /\ \A j \in 1..(i - 1) : fs.entities[j].id # fs.entities[i].id)
                        => graph'.nodes[uuid_index_map'[fs.entities[i].id]] = <<fs.entities[i]>>]_vars

\* C4, for the batches whose relationship types all parse.
C4_LogGrowsByTheFactCountIfParsable ==
    [][(/\ last_cmd'.op = "add_fact"
        /\ \A i \in DOMAIN last_cmd'.fact_store.relationships :
               Parsable(last_cmd'.fact_store.relationships[i]))
       => Len(event_log') = Len(event_log) + Len(last_cmd'.fact_store.relationships)]_vars

\* C5. Creation idempotence, first write wins: an EntityCreated for an id
\* that is present leaves the graph and the index as they are (the node
\* keeps its name, type, properties and edges), and applying an
\* EntityCreated twice gives the projection that applying it once gives.
C5_CreationIdempotent ==
    ~panicked =>
        \A f \in CreatedFacts :
            LET once == ApplyFact(Db, f)
                twice == ApplyFact(once, f)
            IN  /\ f.entity_id \in DOMAIN uuid_index_map =>
                     /\ once.graph = graph
                     /\ once.uuid_index_map = uuid_index_map
                /\ twice.graph = once.graph
                /\ twice.uuid_index_map = once.uuid_index_map

\* C5 witness: u1 was created as Al, a later EntityCreated for u1 carrying
\* other properties has been applied, and u1 is still Al.
C5_Witness ==
    /\ ~entities_applied
    /\ ~panicked
    /\ Len(event_log) >= 2
    /\ event_log[1] = EntityCreated("u1", 1, PropsAl)
    /\ last_cmd.fact_store.relationships = <<EntityCreated("u1", 2, PropsAc)>>
    /\ \A i \in DOMAIN event_log : event_log[i].kind = "EntityCreated"
    /\ GetEntity(Db, "u1") = <<Entity("u1", NameAl, "Person", PropsAl)>>

\* The batch of the step just taken, and what it appended to the log.
LastFacts == last_cmd.fact_store.relationships

\* C6. A RelationshipAdded whose relationship_type is not a known kind
\* never aborts the process: applied on its own it is skipped, adds no edge
\* and leaves the nodes and edges of the projection as they were.
C6_UnparsableTypeIsSkipped ==
    [][(/\ last_cmd'.op = "add_fact"
        /\ last_cmd'.fact_store.entities = <<>>
        /\ Len(LastFacts') = 1
        /\ ~Parsable(LastFacts'[1]))
       => /\ ~panicked'
          /\ graph' = graph
          /\ uuid_index_map' = uuid_index_map]_vars

\* C7. A batch that holds a RelationshipAdded with an unparsable type is
\* not aborted by it: every other Fact of the batch, before and after it,
\* is applied to the projection and appended to the log.
C7_BatchSurvivesUnparsableType ==
    [][(/\ last_cmd'.op = "add_fact"
        /\ \E i \in DOMAIN LastFacts' : ~Parsable(LastFacts'[i]))
       => LET others == SelectSeq(LastFacts', Parsable)
              expected == AddFact(Db, FactStore(last_cmd'.fact_store.entities, others))
              appended == SubSeq(event_log', Len(event_log) + 1, Len(event_log'))
          IN  /\ SubSeq(event_log', 1, Len(event_log)) = event_log
              /\ SelectSeq(appended, Parsable) = others
              /\ graph' = expected.graph
              /\ uuid_index_map' = expected.uuid_index_map]_vars

\* The queries search_entities is tried on.
SearchQueries ==
    {SearchQuery(t, n) : t \in {<<>>, <<"Person">>, <<"Company">>},
                         n \in {<<>>, << <<"A">> >>, <<NameAc>>}}

\* C8. After EntityDeleted(x) for a present x: lookup(x) is absent, no
\* search returns x, x is nobody's outgoing or incoming neighbour, every
\* edge that had x as source or target is gone, all other nodes and edges
\* are unchanged, and the log has grown by the EntityDeleted Fact alone.
C8_DeleteRemovesNodeAndItsEdges ==
    ~panicked =>
        \A f \in DeletedFacts :
            f.entity_id \in DOMAIN uuid_index_map =>
                LET x == f.entity_id
                    after == AddFact(Db, FactStore(<<>>, <<f>>))
                    NotIncident(e) == e.from # x /\ e.to # x
                IN  /\ ~after.panicked
                    /\ GetEntity(after, x) = <<>>
                    /\ \A q \in SearchQueries : x \notin Ids(SearchEntities(after, q))
                    /\ \A y \in Uuids :
                          /\ x \notin Ids(GetOutgoingNeighbours(after, y))
                          /\ x \notin Ids(GetIncomingNeighbours(after, y))
                    /\ EdgeList(after) = SelectSeq(EdgeList(Db), NotIncident)
                    /\ NodeSet(after) = {e \in NodeSet(Db) : e.id # x}
                    /\ \A y \in Uuids \ {x} : GetEntity(after, y) = GetEntity(Db, y)
                    /\ after.event_log = Append(event_log, f)

\* C8 witness: one batch brought in u1 and u2 and the edge u1 -> u2 and then
\* deleted u2; u1 is left without neighbours.
C8_Witness ==
    /\ ~panicked
    /\ last_cmd.fact_store =
           FactStore(<<DirectAl, DirectAc>>,
                     <<RelationshipAdded("u1", "u2", "WorksAt", 1, 2020, <<>>),
                       EntityDeleted("u2", 2)>>)
    /\ GetEntity(Db, "u1") # <<>>
    /\ GetEntity(Db, "u2") = <<>>
    /\ GetOutgoingNeighbours(Db, "u1") = <<>>
    /\ graph.edges = <<>>

\* The RelationshipInvalidated Facts of both directions.
AnyInvalidated ==
    {RelationshipInvalidated("u1", "u2", 2), RelationshipInvalidated("u2", "u1", 2)}

\* C9. RelationshipInvalidated(s, t) with both endpoints present removes
\* every edge from s to t whatever its type and window, parallel edges
\* included, and leaves the entities, the edges from t to s and the edges
\* of every other pair as they were; with an endpoint absent it changes
\* nothing in the projection.
C9_InvalidateRemovesTheOrderedPair ==
    ~panicked =>
        \A f \in AnyInvalidated :
            LET after == AddFact(Db, FactStore(<<>>, <<f>>))
                Other(e) == ~(e.from = f.source_id /\ e.to = f.target_id)
            IN  /\ ~after.panicked
                /\ after.graph.nodes = graph.nodes
                /\ after.uuid_index_map = uuid_index_map
                /\ \A y \in Uuids : GetEntity(after, y) = GetEntity(Db, y)
                /\ IF {f.source_id, f.target_id} \subseteq DOMAIN uuid_index_map
                   THEN EdgeList(after) = SelectSeq(EdgeList(Db), Other)
                   ELSE after.graph = graph

\* C9 witness: one batch brought in u1, u2 and two parallel edges u1 -> u2
\* of different type and window, and then invalidated the pair; both
\* entities are still there and no edge u1 -> u2 is.
C9_Witness ==
    /\ ~panicked
    /\ last_cmd.fact_store =
           FactStore(<<DirectAl, DirectAc>>,
                     <<RelationshipAdded("u1", "u2", "WorksAt", 1, 2020, <<>>),
                       RelationshipAdded("u1", "u2", "LocatedAt", 2, 2021, <<2022>>),
                       RelationshipInvalidated("u1", "u2", 2)>>)
    /\ GetEntity(Db, "u1") # <<>>
    /\ GetEntity(Db, "u2") # <<>>
    /\ \A i \in DOMAIN graph.edges :
          ~(IdAt(Db, graph.edges[i].source) = "u1" /\ IdAt(Db, graph.edges[i].target) = "u2")

\* C10. A RelationshipAdded(s, t) with a parsable type adds exactly one
\* edge s -> t carrying the Fact's valid_from and valid_to if and only if
\* s and t are both in the index when it is applied; otherwise the
\* projection is unchanged, nothing is raised, and the edge does not appear
\* when the missing entity is created afterwards.
C10_EdgeIffBothEndpointsPresent ==
    ~panicked =>
        \A f \in ParsableAddedFacts :
            LET after == AddFact(Db, FactStore(<<>>, <<f>>))
            IN  /\ ~after.panicked
                /\ after.graph.nodes = graph.nodes
                /\ after.uuid_index_map = uuid_index_map
                /\ IF {f.source_id, f.target_id} \subseteq DOMAIN uuid_index_map
                   THEN EdgeList(after) =
                            Append(EdgeList(Db),
                                   [from |-> f.source_id, to |-> f.target_id,
                                    relationship_type |-> f.relationship_type,
                                    valid_from |-> f.valid_from, valid_to |-> f.valid_to])
                   ELSE /\ after.graph = graph
                        /\ \A c \in CreatedFacts :
                              EdgeList(ApplyFact(after, c)) = EdgeList(Db)

\* C10 witness: u1 was created, the edge u1 -> u2 was asked for while u2 was
\* missing, and u2 was created afterwards; both are present and there is no
\* edge.
C10_Witness ==
    /\ ~entities_applied
    /\ ~panicked
    /\ event_log = <<EntityCreated("u1", 1, PropsAl),
                     RelationshipAdded("u1", "u2", "WorksAt", 1, 2020, <<>>),
                     EntityCreated("u2", 1, PropsAc)>>
    /\ DOMAIN uuid_index_map = {"u1", "u2"}
    /\ graph.edges = <<>>

\* The EntityUpdated facts the update arm is tried with in every store: all
\* keys, one key only, a key the entity does not have yet, and no key.
UpdateMaps ==
    {PropsUpd,
     [k \in {"type"} |-> "Place"],
     [k \in {"name"} |-> NameBo],
     [k \in {"city"} |-> "Oslo"],
     NoProps}

AnyUpdated == {EntityUpdated(u, 2, m) : u \in Uuids, m \in UpdateMaps}

\* C11. EntityUpdated(x, updated_properties) for a present id x sets each
\* updated key to its new value in x's properties, keeps every other key of x
\* as it was, and leaves x's entity_type (and name) as they were set at
\* creation, even when the "type" key is updated; the other entities, the
\* index and the edges are untouched, and for an absent id the projection is
\* unchanged.
C11_UpdateMergesKeysKeepsType ==
    \A f \in AnyUpdated :
        LET after == ApplyToProjection(Db, f)
            upd == f.updated_properties
        IN  /\ after.uuid_index_map = uuid_index_map
            /\ after.graph.edges = graph.edges
            /\ after.panicked = panicked
            /\ IF f.entity_id \in DOMAIN uuid_index_map
               THEN LET old == GetEntity(Db, f.entity_id)[1]
                        new == GetEntity(after, f.entity_id)[1]
                    IN  /\ DOMAIN new.properties = DOMAIN old.properties \cup DOMAIN upd
                        /\ \A k \in DOMAIN upd : new.properties[k] = upd[k]
                        /\ \A k \in DOMAIN old.properties \ DOMAIN upd :
                               new.properties[k] = old.properties[k]
                        /\ new.entity_type = old.entity_type
                        /\ new.name = old.name
                        /\ new.id = old.id
                        /\ NodeSet(after) \ {new} = NodeSet(Db) \ {old}
               ELSE Projection(after) = Projection(Db)

\* An entity created as a Person and then updated with "type" = "Place" and
\* a new name: the properties carry the update, the entity_type is Person.
C11_Witness ==
    /\ last_cmd.op = "add_fact"
    /\ last_cmd.fact_store.relationships = <<EntityUpdated("u1", 2, PropsUpd)>>
    /\ event_log = <<EntityCreated("u1", 1, PropsAl), EntityUpdated("u1", 2, PropsUpd)>>
    /\ GetEntity(Db, "u1") = <<Entity("u1", NameAl, "Person", PropsUpd)>>

(***************************************************************************)
(* Distances in the projection, by the ids of the entities: what the       *)
(* traversal claims are measured against.                                  *)
(***************************************************************************)
\* The ids within k outgoing edges of seed (none if seed is not in the store).
RECURSIVE Within(_, _, _)
Within(db, seed, k) ==
    IF seed \notin DOMAIN db.uuid_index_map THEN {}
    ELSE IF k = 0 THEN {seed}
    ELSE LET near == Within(db, seed, k - 1)
         IN  near \cup {e.to : e \in {x \in Range(EdgeList(db)) : x.from \in near}}

\* Every id that outgoing edges lead to from seed.
Reachable(db, seed) == Within(db, seed, Cardinality(NodeSet(db)))

\* The number of edges of a shortest outgoing path from seed to id; more
\* than there are entities when there is no such path.
Distance(db, seed, id) ==
    IF id \in Reachable(db, seed)
    THEN CHOOSE k \in 0..Cardinality(NodeSet(db)) :
             /\ id \in Within(db, seed, k)
             /\ k > 0 => id \notin Within(db, seed, k - 1)
    ELSE Cardinality(NodeSet(db)) + 1

\* The ids with an edge to id.
Sources(db, id) == {e.from : e \in {x \in Range(EdgeList(db)) : x.to = id}}

\* C12. BFS depth bound: for a Case built with max_depth = d, every id of
\* related_entity_ids is within d outgoing edges of the seed; an entity at
\* outgoing distance d+1 or more, or one that only incoming edges connect to
\* the seed, does not appear.
C12_BfsDepthBound ==
    last_cmd.op = "build-case" =>
        LET related == last_cmd.case.related_entity_ids
            seed == last_cmd.seed_entity_id
            d == last_cmd.max_depth
        IN  /\ \A i \in DOMAIN related : related[i] \in Within(Db, seed, d)
            /\ \A x \in NodeSet(Db) :
                   x.id \notin Within(Db, seed, d) => ~SliceContains(related, x.id)
            /\ \A x \in NodeSet(Db) :
                   x.id \notin Reachable(Db, seed) => ~SliceContains(related, x.id)

\* u1 -> u2 -> u3 -> u1, a Case from u1 with max_depth 1: u3, two edges away
\* and with an edge into u1, is left out.
C12_Witness ==
    /\ last_cmd.op = "build-case"
    /\ last_cmd.seed_entity_id = "u1"
    /\ last_cmd.max_depth = 1
    /\ "u3" \in Sources(Db, "u1")
    /\ "u3" \in Within(Db, "u1", 2) \ Within(Db, "u1", 1)
    /\ last_cmd.case.related_entity_ids = <<"u1", "u2">>

\* C13. BFS completeness: for a seed present in the projection and
\* max_depth = d, every entity within d outgoing edges of the seed - the seed
\* itself and the entities at exactly d included - is in related_entity_ids,
\* whatever cycles, self-loops and parallel edges the graph has; with d = 0
\* the result is exactly the seed.
C13_BfsComplete ==
    (last_cmd.op = "build-case" /\ last_cmd.seed_entity_id \in DOMAIN uuid_index_map) =>
        LET related == last_cmd.case.related_entity_ids
            seed == last_cmd.seed_entity_id
            d == last_cmd.max_depth
        IN  /\ \A id \in Within(Db, seed, d) : SliceContains(related, id)
            /\ SliceContains(related, seed)
            /\ d = 0 => related = <<seed>>

\* The cycle u1 -> u2 -> u3 -> u1 with max_depth 2: u3, at exactly two
\* edges, is in the Case.
C13_Witness ==
    /\ last_cmd.op = "build-case"
    /\ last_cmd.seed_entity_id = "u1"
    /\ last_cmd.max_depth = 2
    /\ "u1" \notin Sources(Db, "u3")
    /\ "u3" \in Sources(Db, "u1")
    /\ Distance(Db, "u1", "u3") = 2
    /\ last_cmd.case.related_entity_ids = <<"u1", "u2", "u3">>

\* C14. related_entity_ids is in BFS discovery order and not re-sorted: the
\* seed comes first, no id occurs twice, and the outgoing distance from the
\* seed never decreases along the list.
C14_DiscoveryOrder ==
    last_cmd.op = "build-case" =>
        LET related == last_cmd.case.related_entity_ids
            seed == last_cmd.seed_entity_id
        IN  /\ seed \in DOMAIN uuid_index_map => related # <<>>
            /\ related # <<>> => related[1] = seed
            /\ \A i, j \in DOMAIN related : i # j => related[i] # related[j]
            /\ \A i, j \in DOMAIN related :
                   i < j => Distance(Db, seed, related[i]) <= Distance(Db, seed, related[j])

\* u1 -> u2 -> u3 and then the shortcut u1 -> u3: the newer edge is walked
\* first, so u3 is discovered before u2 and the list is not in id order.
C14_Witness ==
    /\ last_cmd.op = "build-case"
    /\ last_cmd.seed_entity_id = "u1"
    /\ last_cmd.max_depth = 2
    /\ Distance(Db, "u1", "u3") = 1
    /\ Distance(Db, "u1", "u2") = 1
    /\ "u2" \in Sources(Db, "u3")
    /\ last_cmd.case.related_entity_ids = <<"u1", "u3", "u2">>

\* The weights an edge can be given: a type with an open window, another
\* type with a closed one.
EdgeWeights ==
    {[relationship_type |-> "WorksAt", valid_from |-> 2020, valid_to |-> <<>>],
     [relationship_type |-> "LocatedAt", valid_from |-> 2021, valid_to |-> <<2022>>]}

\* The store with edge i given the type and window assignment[i], its
\* endpoints kept.
Reweighted(db, assignment) ==
    [db EXCEPT !.graph.edges =
        [i \in DOMAIN db.graph.edges |->
            [db.graph.edges[i] EXCEPT
                !.weight.relationship_type = assignment[i].relationship_type,
                !.weight.valid_from = assignment[i].valid_from,
                !.weight.valid_to = assignment[i].valid_to]]]

\* The builder of the last build-case command, on store db with window w.
BuilderOn(db, w) ==
    WithTimeRange(WithMaxDepth(CaseBuilderNew(db, last_cmd.seed_entity_id),
                               last_cmd.max_depth),
                  w[1], w[2])

\* C15. Traversal considers topology only: for a fixed store, seed and
\* max_depth, related_entity_ids is the same for every from/to window of the
\* builder and for every assignment of relationship types and
\* valid_from/valid_to values to the edges.
C15_TraversalTopologyOnly ==
    last_cmd.op = "build-case" =>
        /\ \A w \in Windows :
               CollectRelatedEntities(BuilderOn(Db, w)) = last_cmd.case.related_entity_ids
        /\ \A assignment \in [DOMAIN graph.edges -> EdgeWeights] :
               CollectRelatedEntities(BuilderOn(Reweighted(Db, assignment), <<<<>>, <<>>>>))
                   = last_cmd.case.related_entity_ids

\* u1 -> u2 over an edge whose window closed in 2022, then u2 -> u3: the
\* Case from u1 holds all three.
C15_Witness ==
    /\ last_cmd.op = "build-case"
    /\ last_cmd.seed_entity_id = "u1"
    /\ last_cmd.max_depth = 2
    /\ event_log = <<RelationshipAdded("u1", "u2", "LocatedAt", 2, 2021, <<2022>>),
                     RelationshipAdded("u2", "u3", "WorksAt", 1, 2020, <<>>)>>
    /\ Len(graph.edges) = 2
    /\ graph.edges[1].weight.valid_to = <<2022>>
    /\ last_cmd.case.related_entity_ids = <<"u1", "u2", "u3">>

(***************************************************************************)
(* The window and the involvement of a Fact as the claims word them.       *)
(***************************************************************************)
\* A timestamp strictly before from or strictly after to is outside; an
\* absent bound puts nothing outside.
Outside(ts, from, to) ==
    \/ from # <<>> /\ ts < from[1]
    \/ to # <<>> /\ ts > to[1]

\* The ids a Fact involves: its entity_id, or its source_id and target_id.
InvolvedIds(fact) ==
    IF fact.kind \in {"RelationshipAdded", "RelationshipInvalidated"}
    THEN {fact.source_id, fact.target_id}
    ELSE {fact.entity_id}

\* The position of the first occurrence of fact in list.
FirstIndex(list, fact) ==
    CHOOSE i \in DOMAIN list : list[i] = fact /\ \A j \in 1..(i - 1) : list[j] # fact

\* C16. Time-window inclusivity: in Case building, in the timeline and in
\* Case.filter_by_time, a Fact (of those that involve the entities asked
\* for) is kept exactly when its timestamp is not outside the window: kept
\* when equal to from or to, dropped when strictly before from or strictly
\* after to, and never dropped by an absent bound.
C16_WindowInclusive ==
    /\ last_cmd.op = "build-case" =>
           LET case == last_cmd.case
           IN  /\ \A i \in DOMAIN event_log :
                      InvolvedIds(event_log[i]) \cap Range(case.related_entity_ids) # {} =>
                          (event_log[i] \in Range(case.facts)
                              <=> ~Outside(event_log[i].timestamp, last_cmd.from, last_cmd.to))
               /\ \A w \in Windows :
                      LET kept == FilterByTime(case, w[1], w[2])
                          Inside(fact) == ~Outside(fact.timestamp, w[1], w[2])
                      IN  kept = SelectSeq(case.facts, Inside)
    /\ last_cmd.op = "timeline" =>
           \A i \in DOMAIN event_log :
               (last_cmd.query.entity_id = <<>>
                   \/ last_cmd.query.entity_id[1] \in InvolvedIds(event_log[i])) =>
                   (event_log[i] \in Range(last_cmd.result.facts)
                       <=> ~Outside(event_log[i].timestamp,
                                    last_cmd.query.from, last_cmd.query.to))

\* Facts of u1 at 1, 2 and 3 and a Case from u1 with the window [2, 2]: the
\* Fact at 2, on both bounds, is the one kept.
C16_Witness ==
    /\ last_cmd.op = "build-case"
    /\ last_cmd.seed_entity_id = "u1"
    /\ last_cmd.from = <<2>>
    /\ last_cmd.to = <<2>>
    /\ event_log = <<EntityCreated("u1", 1, PropsAl),
                     RelationshipAdded("u1", "u2", "WorksAt", 2, 2020, <<>>),
                     EntityUpdated("u1", 3, PropsUpd)>>
    /\ last_cmd.case.facts = <<RelationshipAdded("u1", "u2", "WorksAt", 2, 2020, <<>>)>>

\* C17. Fact selection is exact: the Facts of a built Case are, as a set, the
\* log Facts that lie in the [from, to] window and involve at least one id of
\* related_entity_ids (an entity-scoped Fact its entity_id, a
\* relationship-scoped Fact its source_id or its target_id); so with an edge
\* a -> b and no window, a Case from a of depth 1 or more holds the
\* EntityCreated Facts of a and of b and the RelationshipAdded Facts a -> b
\* that the log holds.
C17_FactSelectionExact ==
    last_cmd.op = "build-case" =>
        LET case == last_cmd.case
            related == Range(case.related_entity_ids)
        IN  /\ Range(case.facts) =
                   {f \in Range(event_log) :
                        /\ ~Outside(f.timestamp, last_cmd.from, last_cmd.to)
                        /\ InvolvedIds(f) \cap related # {}}
            /\ \A e \in Range(EdgeList(Db)) :
                   (/\ e.from = last_cmd.seed_entity_id
                    /\ last_cmd.max_depth >= 1
                    /\ last_cmd.from = <<>> /\ last_cmd.to = <<>>) =>
                       \A f \in Range(event_log) :
                           (\/ f.kind = "EntityCreated" /\ f.entity_id \in {e.from, e.to}
                            \/ /\ f.kind = "RelationshipAdded"
                               /\ f.source_id = e.from /\ f.target_id = e.to)
                               => f \in Range(case.facts)

\* Scenario A: u1 and u2 created, u1 -> u2 added, a Case from u1 of depth 1.
C17_Witness ==
    /\ last_cmd.op = "build-case"
    /\ last_cmd.seed_entity_id = "u1"
    /\ last_cmd.max_depth = 1
    /\ last_cmd.from = <<>> /\ last_cmd.to = <<>>
    /\ last_cmd.case.related_entity_ids = <<"u1", "u2">>
    /\ last_cmd.case.facts = <<EntityCreated("u1", 1, PropsAl),
                               EntityCreated("u2", 1, PropsAc),
                               RelationshipAdded("u1", "u2", "WorksAt", 2, 2020, <<>>)>>

\* C18. The fact list of a built Case is in ascending timestamp order, and
\* stably so: two of its Facts with equal timestamps stand in the order of
\* their (first) occurrences in the log, whatever the log's insertion order.
C18_SortedAndStable ==
    last_cmd.op = "build-case" =>
        LET facts == last_cmd.case.facts
        IN  \A i, j \in DOMAIN facts :
                i < j =>
                    /\ facts[i].timestamp <= facts[j].timestamp
                    /\ facts[i].timestamp = facts[j].timestamp =>
                           FirstIndex(event_log, facts[i]) < FirstIndex(event_log, facts[j])

\* A log not in timestamp order (3, 2, 2): the Case from u2 has the two
\* Facts at 2 first, in their log order, then the Fact at 3.
C18_Witness ==
    /\ last_cmd.op = "build-case"
    /\ last_cmd.seed_entity_id = "u2"
    /\ event_log = <<EntityCreated("u2", 3, PropsAc),
                     RelationshipAdded("u1", "u2", "WorksAt", 2, 2020, <<>>),
                     RelationshipInvalidated("u1", "u2", 3)>>
    /\ last_cmd.case.facts = <<RelationshipAdded("u1", "u2", "WorksAt", 2, 2020, <<>>),
                               EntityCreated("u2", 3, PropsAc),
                               RelationshipInvalidated("u1", "u2", 3)>>

\* The selected and sorted Facts that build hands to deduplicate_facts, for
\* the builder of the last build-case command.
SortedSelection ==
    LET builder == WithTimeRange(WithMaxDepth(CaseBuilderNew(Db, last_cmd.seed_entity_id),
                                              last_cmd.max_depth),
                                 last_cmd.from, last_cmd.to)
    IN  SortFactsByTime(RelevantFacts(builder, CollectRelatedEntities(builder)))

\* list without its later repetitions: the first occurrences, in list order.
FirstOccurrences(list) ==
    LET first == {i \in DOMAIN list : \A j \in 1..(i - 1) : list[j] # list[i]}
        Nth(n) == CHOOSE i \in first : Cardinality({j \in first : j < i}) = n - 1
    IN  [n \in 1..Cardinality(first) |-> list[Nth(n)]]

\* What C19 says of deduplicate_facts on one list.
DedupPreservesOrder(list) ==
    LET out == DeduplicateFacts(list)
    IN  /\ \A i, j \in DOMAIN out : i # j => out[i] # out[j]
        /\ Range(out) = Range(list)
        /\ out = FirstOccurrences(list)
        /\ \A i, j \in DOMAIN list :
               (list[i] # list[j] /\ [list[i] EXCEPT !.timestamp = list[j].timestamp] = list[j])
                   => (list[i] \in Range(out) /\ list[j] \in Range(out))
        /\ DeduplicateFacts(out) = out

\* C19. Dedup preserves order: deduplicate_facts returns a list with no two
\* structurally equal Facts, holding every distinct Fact of its input once,
\* the first occurrences in their input order; two Facts that differ in
\* timestamp only are both kept; deduplicating the output again changes
\* nothing.  Checked on every log as the input, and on the list each built
\* Case is deduplicated from.
C19_DedupPreservesOrder ==
    /\ DedupPreservesOrder(event_log)
    /\ last_cmd.op = "build-case" =>
           /\ DedupPreservesOrder(SortedSelection)
           /\ last_cmd.case.facts = FirstOccurrences(SortedSelection)

\* A log holding EntityCreated(u2) at 1 twice and once more at 3: the Case
\* from u2 has it once at 1 and once at 3.
C19_Witness ==
    /\ last_cmd.op = "build-case"
    /\ last_cmd.seed_entity_id = "u2"
    /\ event_log = <<EntityCreated("u2", 1, PropsAc), EntityCreated("u2", 3, PropsAc),
                     EntityCreated("u2", 1, PropsAc)>>
    /\ Len(SortedSelection) = 3
    /\ last_cmd.case.facts = <<EntityCreated("u2", 1, PropsAc), EntityCreated("u2", 3, PropsAc)>>

\* C20. timeline and the Case Builder's fact selection are behaviourally
\* identical: for an entity id e and a window [from, to], the list
\* timeline(e, from, to) returns is the builder's selected and sorted list
\* (before deduplication) for the entity list <<e>> and the same window, and
\* it is in ascending timestamp order.
C20_TimelineIsSelection ==
    (last_cmd.op = "timeline" /\ last_cmd.query.entity_id # <<>>) =>
        LET e == last_cmd.query.entity_id[1]
            facts == last_cmd.result.facts
            builder == WithTimeRange(CaseBuilderNew(Db, e),
                                     last_cmd.query.from, last_cmd.query.to)
        IN  /\ facts = SortFactsByTime(RelevantFacts(builder, <<e>>))
            /\ \A i, j \in DOMAIN facts : i < j => facts[i].timestamp <= facts[j].timestamp

\* The timeline of u2 over [2, 2] on a log with a Fact of u2 before the
\* window, a relationship ending in u2 at 2, and a deletion of u2 at 2.
C20_Witness ==
    /\ last_cmd.op = "timeline"
    /\ last_cmd.query = TimelineQuery(<<"u2">>, <<2>>, <<2>>)
    /\ event_log = <<EntityCreated("u2", 1, PropsAc),
                     EntityDeleted("u2", 2),
                     RelationshipAdded("u1", "u2", "WorksAt", 2, 2020, <<>>)>>
    /\ last_cmd.result.facts = <<EntityDeleted("u2", 2),
                                 RelationshipAdded("u1", "u2", "WorksAt", 2, 2020, <<>>)>>

\* C21. Case build is invariant under save/load: for a store built from
\* Facts only, the Case built with the same seed, max_depth and window on the
\* store obtained by persist_facts and then load_from_file has the same
\* related_entity_ids (as a set; here even as a list) and the same fact list
\* as the Case built on the live store.
C21_CaseBuildSurvivesSaveLoad ==
    (last_cmd.op = "build-case" /\ ~entities_applied) =>
        LET loaded == LoadFromFile(PersistFacts(Db))
            rebuilt == Build(BuilderOn(loaded, <<last_cmd.from, last_cmd.to>>),
                             "Case around", "Auto-generated case", "case-id", 0)
        IN  /\ ~loaded.panicked
            /\ Range(rebuilt.related_entity_ids) = Range(last_cmd.case.related_entity_ids)
            /\ rebuilt.related_entity_ids = last_cmd.case.related_entity_ids
            /\ rebuilt.facts = last_cmd.case.facts

\* Scenario D: Scenario A's store persisted and loaded, the Case from u1 of
\* depth 1 built on both: two entities and three Facts either way.
C21_Witness ==
    /\ last_cmd.op = "build-case"
    /\ ~entities_applied
    /\ last_cmd.seed_entity_id = "u1"
    /\ last_cmd.max_depth = 1
    /\ last_cmd.from = <<>> /\ last_cmd.to = <<>>
    /\ event_log = <<EntityCreated("u1", 1, PropsAl), EntityCreated("u2", 1, PropsAc),
                     RelationshipAdded("u1", "u2", "WorksAt", 2, 2020, <<>>)>>
    /\ Len(last_cmd.case.facts) = 3
    /\ LET loaded == LoadFromFile(PersistFacts(Db))
           rebuilt == Build(BuilderOn(loaded, << <<>>, <<>> >>),
                            "Case around", "Auto-generated case", "case-id", 0)
       IN  /\ rebuilt.related_entity_ids = <<"u1", "u2">>
           /\ rebuilt.facts = last_cmd.case.facts

(***************************************************************************)
(* C22: lookup, the two neighbour queries, search, timeline, Case build    *)
(* and persist leave the event log, the graph's nodes and edges and the    *)
(* identity index as they were.                                            *)
(***************************************************************************)
ReadOps == {"lookup", "outgoing", "incoming", "search", "timeline", "build-case", "save"}

C22_ReadsDoNotMutate ==
    [][last_cmd'.op \in ReadOps =>
           /\ event_log' = event_log
           /\ graph' = graph
           /\ uuid_index_map' = uuid_index_map]_vars

C22_Witness ==
    /\ last_cmd.op = "save"
    /\ last_cmd.result = "Ok"
    /\ Len(event_log) = 3
    /\ Len(EdgeList(Db)) = 1
    /\ DOMAIN uuid_index_map = {"u1", "u2"}
    /\ file = <<PersistFacts(Db)>>

(***************************************************************************)
(* C24: an absent id is answered with an empty result: lookup returns      *)
(* none, both neighbour queries return an empty list, and the Case built   *)
(* for an absent seed has no related entity and no Fact, whatever the log  *)
(* says about that id.                                                     *)
(***************************************************************************)
Absent(uuid) == \A entity \in NodeSet(Db) : entity.id # uuid

Mentioned(uuid) ==
    \E i \in 1..Len(event_log) : InvolvesAny(event_log[i], <<uuid>>)

C24_NotFoundIsEmpty ==
    /\ (last_cmd.op \in {"lookup", "outgoing", "incoming"} /\ Absent(last_cmd.uuid))
           => (last_cmd.result = <<>> /\ ~panicked)
    /\ (last_cmd.op = "build-case" /\ Absent(last_cmd.seed_entity_id))
           => /\ last_cmd.case.related_entity_ids = <<>>
              /\ last_cmd.case.facts = <<>>
              /\ ~panicked

C24_Witness ==
    /\ last_cmd.op = "build-case"
    /\ last_cmd.seed_entity_id = "u2"
    /\ Absent("u2")
    /\ Mentioned("u2")
    /\ Len(event_log) = 3
    /\ last_cmd.case.related_entity_ids = <<>>
    /\ last_cmd.case.facts = <<>>

(***************************************************************************)
(* C23: a failing persist returns an error and leaves the store as it      *)
(* was; a failing load (no readable file, or content that is not a         *)
(* serialized log) returns an error and the caller keeps its store.        *)
(***************************************************************************)
StoreUnchanged ==
    /\ event_log' = event_log
    /\ graph' = graph
    /\ uuid_index_map' = uuid_index_map

LoadMustFail(io) ==
    \/ io # "ok"
    \/ file = <<>>
    \/ ~Deserializable(file[1])

C23_IoFailuresPropagate ==
    [][/\ (last_cmd'.op = "save" /\ last_cmd'.io # "ok")
              => (last_cmd'.result = "Err" /\ StoreUnchanged)
       /\ (last_cmd'.op = "load" /\ LoadMustFail(last_cmd'.io))
              => (last_cmd'.result = "Err" /\ StoreUnchanged)]_vars

C23_Witness ==
    /\ last_cmd.op = "load"
    /\ last_cmd.io = "ok"
    /\ last_cmd.result = "Err"
    /\ file = <<Truncated>>
    /\ Len(event_log) = 3
    /\ Len(EdgeList(Db)) = 1

(***************************************************************************)
(* C26: the log of a loaded store is the persisted log, Fact for Fact in   *)
(* the recorded order, whatever the timestamps, so that persisting the     *)
(* loaded store writes the same content again.                             *)
(***************************************************************************)
C26_LoadReproducesLog ==
    (last_cmd.op = "load" /\ last_cmd.result = "Ok") =>
        /\ event_log = DeserializeLog(file[1])
        /\ Len(event_log) = Len(file[1].items)
        /\ PersistFacts(Db) = file[1]

C26_Witness ==
    /\ last_cmd.op = "load"
    /\ last_cmd.result = "Ok"
    /\ Len(event_log) = 3
    /\ Timestamp(event_log[1]) > Timestamp(event_log[2])
    /\ event_log = DeserializeLog(file[1])

(***************************************************************************)
(* C25: the direct Entities of a batch are in the projection before its    *)
(* Facts are applied, so a RelationshipAdded(a, b) carried with the direct *)
(* Entities a and b adds its edge in that apply; and in every reachable    *)
(* state b occurs in the outgoing neighbours of a as often as a occurs in  *)
(* the incoming neighbours of b, namely once per edge a -> b.  (A          *)
(* RelationshipAdded whose type names no RelationshipType adds no edge in  *)
(* any case: the first part is about the Facts that can add one.)          *)
(***************************************************************************)
Occurrences(entities, uuid) ==
    Cardinality({i \in DOMAIN entities : entities[i].id = uuid})

EdgesBetween(db, a, b) ==
    LET el == EdgeList(db)
    IN  Cardinality({i \in DOMAIN el : el[i].from = a /\ el[i].to = b})

\* The i-th Fact of the batch adds an edge between two of the batch's direct
\* Entities, and the batch neither deletes an endpoint nor invalidates the
\* pair afterwards.
AddsEdgeOfDirectEntities(fact_store, i) ==
    LET facts == fact_store.relationships
        fact == facts[i]
        direct == Ids(fact_store.entities)
    IN  /\ fact.kind = "RelationshipAdded"
        /\ RelationshipTypeFromStr(fact.relationship_type) # <<>>
        /\ {fact.source_id, fact.target_id} \subseteq direct
        /\ \A j \in DOMAIN facts :
               /\ ~(facts[j].kind = "EntityDeleted"
                    /\ facts[j].entity_id \in {fact.source_id, fact.target_id})
               /\ ~(j > i /\ facts[j].kind = "RelationshipInvalidated"
                    /\ facts[j].source_id = fact.source_id
                    /\ facts[j].target_id = fact.target_id)

HasEdgeOf(db, fact) ==
    \E i \in DOMAIN EdgeList(db) :
        EdgeList(db)[i] = [from |-> fact.source_id, to |-> fact.target_id,
                           relationship_type |-> RelationshipTypeFromStr(fact.relationship_type)[1],
                           valid_from |-> fact.valid_from, valid_to |-> fact.valid_to]

NodeIds(db) == {IdAt(db, idx) : idx \in OccupiedNodes(db)}

C29_IndexConsistent ==
    /\ DOMAIN uuid_index_map = NodeIds(Db)
    /\ \A uuid \in DOMAIN uuid_index_map :
           /\ uuid_index_map[uuid] \in OccupiedNodes(Db)
           /\ IdAt(Db, uuid_index_map[uuid]) = uuid
    /\ \A i, j \in OccupiedNodes(Db) : IdAt(Db, i) = IdAt(Db, j) => i = j
    /\ \A uuid \in Uuids : (GetEntity(Db, uuid) # <<>>) <=> (uuid \in NodeIds(Db))
    /\ \A uuid \in Uuids : GetEntity(Db, uuid) # <<>> => GetEntity(Db, uuid)[1].id = uuid

C29_Witness ==
    /\ Len(event_log) = 3
    /\ event_log[1] = EntityDeleted("u2", 2)
    /\ event_log[2] = EntityCreated("u2", 1, PropsAc)
    /\ event_log[3] = EntityDeleted("u1", 2)
    /\ graph.free # <<>>
    /\ DOMAIN uuid_index_map = {"u2"}
    /\ GetEntity(Db, "u1") = <<>>
    /\ GetEntity(Db, "u2") # <<>>

(***************************************************************************)
(* C30: each edge of the projection leaves and enters a node present in    *)
(* the graph, and its source_id and target_id are the ids of these nodes.  *)
(***************************************************************************)
C30_NoDanglingEdges ==
    \A i \in DOMAIN graph.edges :
        LET edge == graph.edges[i]
        IN  /\ edge.source \in OccupiedNodes(Db)
            /\ edge.target \in OccupiedNodes(Db)
            /\ edge.weight.source_id = IdAt(Db, edge.source)
            /\ edge.weight.target_id = IdAt(Db, edge.target)

C30_Witness ==
    /\ Len(event_log) = 3
    /\ event_log[1].kind = "RelationshipAdded"
    /\ event_log[2] = EntityDeleted("u2", 2)
    /\ event_log[3] = RelationshipAdded("u2", "u1", "WorksAt", 1, 2020, <<>>)
    /\ Len(graph.edges) = 1
    /\ graph.edges[1].weight.source_id = "u2"
    /\ DOMAIN uuid_index_map = {"u1", "u2"}

(***************************************************************************)
(* C27 as stated: a node dequeued at depth exactly max_depth is recorded   *)
(* and none of its outgoing neighbours is enqueued, so the queue never     *)
(* holds an entry whose depth exceeds max_depth.                           *)
(***************************************************************************)
Turns == last_cmd.bfs.turns

Queue == last_cmd.bfs.queue

C27_MaxDepthNotExpanded ==
    last_cmd.op = "bfs" =>
        /\ \A i \in DOMAIN Turns :
               Turns[i].depth = last_cmd.max_depth =>
                   (Turns[i].outcome \in {"recorded", "seen"} /\ Turns[i].enqueued = 0)
        /\ \A i \in DOMAIN Queue : Queue[i][2] <= last_cmd.max_depth

(***************************************************************************)
(* C27, amended: a node dequeued at depth exactly max_depth is recorded    *)
(* and its outgoing neighbours are enqueued at depth max_depth + 1; every  *)
(* entry dequeued at a depth above max_depth is dropped, neither recorded  *)
(* nor expanded, so the queue never holds an entry whose depth exceeds     *)
(* max_depth + 1 and the result is the one of the bounded traversal.       *)
(***************************************************************************)
\* The entries the last turn pushed are the outgoing neighbours of its node,
\* one depth further.
LastTurnEnqueued ==
    LET turn == Turns[Len(Turns)]
        ns == GraphNeighbors(graph, turn.node_idx)
        base == Len(Queue) - Len(ns)
    IN  /\ turn.enqueued = Len(ns)
        /\ base >= 0
        /\ \A i \in 1..Len(ns) : Queue[base + i] = <<ns[i], turn.depth + 1>>

C27_DeeperEntriesDropped ==
    last_cmd.op = "bfs" =>
        /\ \A i \in DOMAIN Turns :
               /\ Turns[i].depth > last_cmd.max_depth <=> Turns[i].outcome = "beyond"
               /\ Turns[i].outcome # "recorded" => Turns[i].enqueued = 0
        /\ (Turns # <<>> /\ Turns[Len(Turns)].outcome = "recorded") => LastTurnEnqueued
        /\ Len(last_cmd.bfs.related) =
               Cardinality({i \in DOMAIN Turns : Turns[i].outcome = "recorded"})
        /\ \A i \in DOMAIN Queue : Queue[i][2] <= last_cmd.max_depth + 1
        /\ Queue = <<>> =>
               /\ last_cmd.bfs.related =
                      CollectRelatedEntities(
                          WithMaxDepth(CaseBuilderNew(Db, last_cmd.seed_entity_id),
                                       last_cmd.max_depth))
               /\ \A id \in Range(last_cmd.bfs.related) :
                      Distance(Db, last_cmd.seed_entity_id, id) <= last_cmd.max_depth

C27_Witness ==
    /\ last_cmd.op = "bfs"
    /\ last_cmd.seed_entity_id = "u1"
    /\ last_cmd.max_depth = 1
    /\ Queue = <<>>
    /\ Len(Turns) = 3
    /\ Turns[2].depth = 1 /\ Turns[2].outcome = "recorded" /\ Turns[2].enqueued = 1
    /\ Turns[3].depth = 2 /\ Turns[3].outcome = "beyond"
    /\ last_cmd.bfs.related = <<"u1", "u2">>

(***************************************************************************)
(* C28: the traversal terminates on every projection, directed cycles,     *)
(* self-loops and parallel edges included, for every max_depth: no node is *)
(* expanded twice and a traversal in its loop eventually has an empty      *)
(* queue.                                                                  *)
(***************************************************************************)
ExpandedAtMostOnce ==
    last_cmd.op = "bfs" =>
        \A i, j \in DOMAIN Turns :
            (/\ Turns[i].outcome = "recorded"
             /\ Turns[j].outcome = "recorded"
             /\ Turns[i].node_idx = Turns[j].node_idx) => i = j

C28_TraversalTerminates ==
    /\ []ExpandedAtMostOnce
    /\ BfsRunning ~> ~BfsRunning

\* A finished traversal from u1 around the cycle u1 -> u2 -> u3 -> u1 with a
\* depth bound that the cycle's length exceeds nowhere.
C28_Witness ==
    /\ last_cmd.op = "bfs"
    /\ last_cmd.seed_entity_id = "u1"
    /\ last_cmd.max_depth = MaxDepth
    /\ Queue = <<>>
    /\ last_cmd.bfs.related = <<"u1", "u2", "u3">>
    /\ Len(graph.edges) = 3
    /\ \E i \in DOMAIN Turns : Turns[i].outcome = "seen"

(***************************************************************************)
(* C31: an EntityCreated(x) applied while x is deleted brings x back with  *)
(* the name, type and properties of that Fact and with no incoming or      *)
(* outgoing edge; the edges x had before the deletion stay away, in the    *)
(* live store and in the store replayed from the log.                      *)
(***************************************************************************)
DbAfter ==
    [graph |-> graph', uuid_index_map |-> uuid_index_map', event_log |-> event_log',
     panicked |-> panicked']

\* The batch of the step is the single Fact of the given kind, with no
\* entity definition beside it.
StepApplies(kind) ==
    /\ last_cmd'.op = "add_fact"
    /\ event_log' # event_log
    /\ last_cmd'.fact_store.entities = <<>>
    /\ Len(last_cmd'.fact_store.relationships) = 1
    /\ last_cmd'.fact_store.relationships[1].kind = kind

Deleted(uuid) ==
    /\ uuid \notin DOMAIN uuid_index_map
    /\ \E i \in DOMAIN event_log :
           event_log[i].kind = "EntityDeleted" /\ event_log[i].entity_id = uuid

IncidentEdges(db, uuid) ==
    {i \in DOMAIN EdgeList(db) : EdgeList(db)[i].from = uuid \/ EdgeList(db)[i].to = uuid}

BackWithoutEdges(db, fact) ==
    /\ GetEntity(db, fact.entity_id) =
           <<Entity(fact.entity_id, NameOf(fact.properties),
                    EntityTypeFromProperties(fact.properties), fact.properties)>>
    /\ GetOutgoingNeighbours(db, fact.entity_id) = <<>>
    /\ GetIncomingNeighbours(db, fact.entity_id) = <<>>
    /\ IncidentEdges(db, fact.entity_id) = {}

C32_UpdateTouchesPropertiesOnly ==
    [][StepApplies("EntityUpdated")
           => LET fact == last_cmd'.fact_store.relationships[1]
                  x == fact.entity_id
              IN  /\ graph'.edges = graph.edges
                  /\ uuid_index_map' = uuid_index_map
                  /\ EdgeList(DbAfter) = EdgeList(Db)
                  /\ \A uuid \in Uuids \ {x} : GetEntity(DbAfter, uuid) = GetEntity(Db, uuid)
                  /\ (GetEntity(Db, x) = <<>>) <=> (GetEntity(DbAfter, x) = <<>>)
                  /\ GetEntity(Db, x) # <<>> =>
                         LET old == GetEntity(Db, x)[1]
                             new == GetEntity(DbAfter, x)[1]
                         IN  /\ new.name = old.name
                             /\ new.id = old.id
                             /\ new.entity_type = old.entity_type
                             /\ [new EXCEPT !.properties = old.properties] = old
                             /\ "name" \in DOMAIN fact.updated_properties =>
                                    new.properties["name"] = fact.updated_properties["name"]]_vars

\* u1 created as Al and updated with "name" = Bo while it has an edge: the
\* properties say Bo, the name field says Al.
C32_Witness ==
    /\ last_cmd.op = "add_fact"
    /\ last_cmd.fact_store = FactStore(<<>>, <<EntityUpdated("u1", 2, PropsUpd)>>)
    /\ event_log[Len(event_log)] = EntityUpdated("u1", 2, PropsUpd)
    /\ GetEntity(Db, "u1") # <<>>
    /\ GetEntity(Db, "u1")[1].name = NameAl
    /\ GetEntity(Db, "u1")[1].properties["name"] = NameBo
    /\ Len(graph.edges) = 1

====
